---- MODULE Spec2Model ----
(***************************************************************************)
(* A model of jpy_datareader's e-Stat readers (src/jpy_datareader/base.py  *)
(* and src/jpy_datareader/estat.py).                                       *)
(*                                                                         *)
(* Two state machines share the pure table operators below:                *)
(*   Spec      one reader instance serving public read calls: the HTTP     *)
(*             attempts of _get_response, the probe / single / partition   *)
(*             requests of StatsDataReader, the session and the attributes *)
(*   PipeSpec  StatsDataReader._read_one_data and StatsDataReader.read     *)
(*             run stage by stage on one response drawn from bounded sets  *)
(*                                                                         *)
(* Representation.  A column name is a sequence of tokens, so that the     *)
(* substring tests and replacements of the source ("code" in c,            *)
(* c.replace("code", ...), col.lstrip("@")) are computed and not assumed:  *)
(* "tab_code" is <<"tab","_","code">>, "@cat01" is <<"@","cat","01">>.     *)
(* The Japanese strings of the source are written as ASCII stand-ins       *)
(* (JA_code is the string the source maps "code" to, and so on).           *)
(* A DataFrame is [cols |-> sequence of names, rows |-> sequence of rows], *)
(* a row a function from the names to cells.  A cell of a code or label    *)
(* column is a string, NULL being pandas' NaN; a cell of the "$" column is *)
(* Str(chars), Num(n) or NaN.                                              *)
(***************************************************************************)
EXTENDS Integers, Sequences, FiniteSets, TLC

VARIABLES
    reader,     \* the constructed reader: [kind, limit, retry_count, name_or_id]
    session,    \* self.session: "open" | "closed"
    pc,         \* "idle" | "get" (inside _get_response, before an attempt) | "done"
    op,         \* the public call in progress or last finished
    calls,      \* the _get_response invocations of this public call, in order
    sample,     \* the probe's response (sample_response of the classification split)
    plan,       \* [param_names, combos]: the partition plan of the split
    idx,        \* index of the partition combination being fetched
    dfs,        \* the tables accumulated by the split, in fetch order
    outcome,    \* "none" | "returned" | the exception that reached the caller
    result,     \* the value returned to the caller
    attrs,      \* the metadata attributes of the reader (STATUS, ERROR_MSG, ...)
    p_cfg,      \* PipeSpec: [name_or_id, na_values, normal, split_units]
    p_out,      \* PipeSpec: the response being processed
    p_stage,    \* PipeSpec: the next stage of _read_one_data / read
    p_df,       \* PipeSpec: the table after the stages run so far
    p_raw,      \* PipeSpec: the table as built from VALUE, before any stage
    p_pre,      \* PipeSpec: the table handed to the stage that ran last
    p_res,      \* PipeSpec: what read returned
    n_hist,     \* NameSpec: a table's column names, before and after each renaming pass
    h_in,       \* HierSpec: [metainfo, cat_key, use_fillna_lv_hierarchy] of one call
    h_out,      \* HierSpec: [ret |-> what _create_hierarchy_dataframe returned]
    k_in,       \* KeySpec: [api_key, dotenv_path, available, files, environ] of one construction
    k_env,      \* KeySpec: os.environ
    k_out,      \* KeySpec: [api_key, exc]: self.api_key, or the exception raised
    q_cfg,      \* ParamSpec: [kind, api_key, fields]: the attributes params reads
    q_out,      \* ParamSpec: the mappings the evaluations of params returned, in order
    a_in,       \* AttrSpec: [kind, json]: a reader and the response it stores
    a_out,      \* AttrSpec: the attributes after the response was stored
    w_in,       \* WalkSpec: the entries of one classification
    w_st,       \* WalkSpec: [pc, row, cur, chain, steps]: the loop over the rows and the walk
    g_st        \* FetchSpec: [pc, retry_count, received, last_response_text, msg] of one _get_response

protoVars == <<reader, session, pc, op, calls, sample, plan, idx, dfs, outcome, result, attrs>>
pipeVars == <<p_cfg, p_out, p_stage, p_df, p_raw, p_pre, p_res>>
funVars == <<n_hist, h_in, h_out, k_in, k_env, k_out, q_cfg, q_out, a_in, a_out, w_in, w_st, g_st>>
vars == <<protoVars, pipeVars, funVars>>

-----------------------------------------------------------------------------
(* Bounds of the model *)

MaxRetry == 1       \* retry_count ranges over 0..MaxRetry
MaxRows == 2        \* observation records of a response in PipeSpec
MaxTokens == 3      \* tokens of a column name in NameSpec
MaxPasses == 2      \* renaming passes applied to one table in NameSpec
MaxEntries == 3     \* entries of a classification set in HierSpec

(* Program constants *)

PageCap == 100000   \* the literal 100000 of _read_with_pagination and the split

-----------------------------------------------------------------------------
(* Cells *)

NULL == "NaN"
Str(s) == [k |-> "str", s |-> s, n |-> 0]
Num(n) == [k |-> "num", s |-> <<>>, n |-> n]
NaN == [k |-> "nan", s |-> <<>>, n |-> 0]

Range(s) == {s[i] : i \in DOMAIN s}

RECURSIVE SeqSum(_)
SeqSum(s) == IF s = <<>> THEN 0 ELSE Head(s) + SeqSum(Tail(s))

RECURSIVE Flatten(_)
Flatten(ss) == IF ss = <<>> THEN <<>> ELSE Head(ss) \o Flatten(Tail(ss))

-----------------------------------------------------------------------------
(* Column names *)

\* the replacement strings of attrdict, estat.py 1818-1821
JA_value == "J-atai"
JA_code == "J-koodo"
JA_level == "J-kaisoureberu"
JA_unit == "J-tan-i"
JA_parentCode == "J-oyakoodo"
JA_addInf == "J-tsuikajouhou"
JA_tab == "J-hyoushoukoumoku"
JA_cat == "J-bunrui"
JA_area == "J-chiiki"
JA_time == "J-jikanjiku"
JA_annotation == "J-chuushakukigou"
\* the character _denormalize_data strips from the end of a column name
JA_mei == "J-mei"
\* the literal of _split_by_units for records without a unit
NoUnit == "J-tan-i-nashi"

attrdict ==
    << <<"value", JA_value>>, <<"code", JA_code>>, <<"name", "">>,
       <<"level", JA_level>>, <<"unit", JA_unit>>, <<"parentCode", JA_parentCode>>,
       <<"addInf", JA_addInf>>, <<"tab", JA_tab>>, <<"cat", JA_cat>>,
       <<"area", JA_area>>, <<"time", JA_time>>, <<"annotation", JA_annotation>> >>

\* k in c
HasToken(c, k) == \E i \in DOMAIN c : c[i] = k

\* pattern in col, for a pattern that may itself contain another token's text:
\* the source's "J-oyakoodo" (parent code) ends with the text of "J-koodo" (code)
Contains(c, k) ==
    \/ HasToken(c, k)
    \/ k = JA_code /\ HasToken(c, JA_parentCode)

\* c.replace(k, v); an empty v deletes the token
RECURSIVE ReplaceToken(_, _, _)
ReplaceToken(c, k, v) ==
    IF c = <<>> THEN <<>>
    ELSE (IF Head(c) = k THEN (IF v = "" THEN <<>> ELSE <<v>>) ELSE <<Head(c)>>)
         \o ReplaceToken(Tail(c), k, v)

\* col.rstrip(chars), for chars that are whole tokens of the name
RECURSIVE rstrip(_, _)
rstrip(c, chars) ==
    IF c # <<>> /\ c[Len(c)] \in chars THEN rstrip(SubSeq(c, 1, Len(c) - 1), chars) ELSE c

\* col.lstrip("@")
RECURSIVE lstripAt(_)
lstripAt(c) == IF c # <<>> /\ Head(c) = "@" THEN lstripAt(Tail(c)) ELSE c

\* the loop of _convert: the first key of attrdict found in c is replaced, once
RECURSIVE ConvertFrom(_, _)
ConvertFrom(c, i) ==
    IF i > Len(attrdict) THEN c
    ELSE IF HasToken(c, attrdict[i][1])
         THEN ReplaceToken(c, attrdict[i][1], attrdict[i][2])
         ELSE ConvertFrom(c, i + 1)

\* a variant of _convert that replaces every key of attrdict found in c
RECURSIVE ConvertAllFrom(_, _)
ConvertAllFrom(c, i) ==
    IF i > Len(attrdict) THEN c
    ELSE ConvertAllFrom(ReplaceToken(c, attrdict[i][1], attrdict[i][2]), i + 1)

_convert_all(c) == ConvertAllFrom(c, 1)

_convert(c) == ConvertFrom(c, 1)

-----------------------------------------------------------------------------
(* DataFrames *)

EmptyDF == [cols |-> <<>>, rows |-> <<>>]

ColSet(df) == Range(df.cols)

\* first index of name n in the sequence of names s (0 if absent)
RECURSIVE IndexFrom(_, _, _)
IndexFrom(s, n, i) ==
    IF i > Len(s) THEN 0 ELSE IF s[i] = n THEN i ELSE IndexFrom(s, n, i + 1)

\* the sequence s without repeated elements, first occurrences kept
RECURSIVE Dedup(_)
Dedup(s) ==
    IF s = <<>> THEN <<>>
    ELSE LET d == Dedup(SelectSeq(Tail(s), LAMBDA x : x # Head(s)))
         IN  <<Head(s)>> \o d

\* df.rename(columns=f), for an f that is one-to-one on the columns of df
RenameCols(df, f(_)) ==
    LET new == [i \in DOMAIN df.cols |-> f(df.cols[i])]
    IN  [cols |-> new,
         rows |-> [r \in DOMAIN df.rows |->
                    [n \in Range(new) |->
                        df.rows[r][df.cols[CHOOSE i \in DOMAIN new : new[i] = n]]]]]

\* df.assign(**{f(col): df[col] for col in df.columns}).drop(columns=df.columns.tolist()):
\* assign overwrites a column whose new name is an existing one in place, and the
\* drop then removes every original column, the overwritten ones included
AssignDrop(df, f(_)) ==
    LET new == [i \in DOMAIN df.cols |-> f(df.cols[i])]
        kept == Dedup(SelectSeq(new, LAMBDA n : n \notin ColSet(df)))
        \* a later keyword of the dict wins
        src(n) == CHOOSE i \in DOMAIN new :
                    new[i] = n /\ \A j \in DOMAIN new : new[j] = n => j <= i
    IN  [cols |-> kept,
         rows |-> [r \in DOMAIN df.rows |->
                    [n \in Range(kept) |-> df.rows[r][df.cols[src(n)]]]]]

\* df.drop(columns=[c for c in df.columns if P(c)])
DropCols(df, P(_)) ==
    LET kept == SelectSeq(df.cols, LAMBDA c : ~P(c))
    IN  [cols |-> kept,
         rows |-> [r \in DOMAIN df.rows |-> [n \in Range(kept) |-> df.rows[r][n]]]]

\* the canonical order of the attributes of the API's records
KeyOrder ==
    << <<"@", "tab">>, <<"@", "cat", "01">>, <<"@", "area">>, <<"@", "time">>,
       <<"@", "unit">>, <<"$">>,
       <<"@", "code">>, <<"@", "name">>, <<"@", "level">>, <<"@", "parentCode">> >>

\* pd.DataFrame(list of dicts): a column per key found, NaN where a record lacks it
FrameOf(records, nan(_)) ==
    LET keys == UNION {DOMAIN records[i] : i \in DOMAIN records}
        cols == Dedup(SelectSeq(KeyOrder, LAMBDA k : k \in keys))
    IN  [cols |-> cols,
         rows |-> [r \in DOMAIN records |->
                    [n \in keys |-> IF n \in DOMAIN records[r] THEN records[r][n]
                                    ELSE nan(n)]]]

\* the missing cell of column n: NaN in the measurement column, NULL elsewhere
NanFor(n) == IF n \in {<<"$">>, <<"value">>, <<JA_value>>} THEN NaN ELSE NULL

\* a variant of Concat that puts the tables in the reverse of their order
Concat_reversed(tables) ==
    LET cols == Dedup(Flatten([i \in DOMAIN tables |-> tables[i].cols]))
        fill(row) == [n \in Range(cols) |-> IF n \in DOMAIN row THEN row[n] ELSE NanFor(n)]
        all == Flatten([i \in DOMAIN tables |-> tables[Len(tables) + 1 - i].rows])
    IN  [cols |-> cols, rows |-> [r \in DOMAIN all |-> fill(all[r])]]

\* pd.concat(dfs, axis=0, ignore_index=True): the union of the columns in order
\* of first appearance, the rows of the tables one table after another
Concat(tables) ==
    LET cols == Dedup(Flatten([i \in DOMAIN tables |-> tables[i].cols]))
        fill(row) == [n \in Range(cols) |-> IF n \in DOMAIN row THEN row[n] ELSE NanFor(n)]
        all == Flatten([i \in DOMAIN tables |-> tables[i].rows])
    IN  [cols |-> cols, rows |-> [r \in DOMAIN all |-> fill(all[r])]]

-----------------------------------------------------------------------------
(* JSON: an object is a function from its keys; a value that the source tests *)
(* with isinstance is tagged [t |-> "list" | "dict" | "other", v |-> ...], v   *)
(* being the elements of a list and, for a dict, the one object                *)

None == [t |-> "none", v |-> <<>>]
\* {}
EmptyObj == [key \in {} |-> None]
List(v) == [t |-> "list", v |-> v]
Dict(v) == [t |-> "dict", v |-> <<v>>]
Other == [t |-> "other", v |-> <<>>]

\* obj.get(key, default)
Get(obj, key, default) == IF key \in DOMAIN obj THEN obj[key] ELSE default

\* Python truthiness of a tagged value
Truthy(x) ==
    CASE x.t = "none" -> FALSE
      [] x.t = "list" -> x.v # <<>>
      [] x.t = "dict" -> DOMAIN x.v[1] # {}
      [] OTHER -> TRUE

Err(e) == [err |-> e]
IsErr(x) == "err" \in DOMAIN x

\* no value: a call that returned nothing yet, a function that returned None
NoResult == [none |-> TRUE]

-----------------------------------------------------------------------------
(* StatsDataReader: the stages of _read_one_data *)

IsDigit(ch) == ch \in {"0", "1", "2", "3", "4", "5", "6", "7", "8", "9"}

DigitVal(ch) ==
    CASE ch = "0" -> 0 [] ch = "1" -> 1 [] ch = "2" -> 2 [] ch = "3" -> 3
      [] ch = "4" -> 4 [] ch = "5" -> 5 [] ch = "6" -> 6 [] ch = "7" -> 7
      [] ch = "8" -> 8 [] ch = "9" -> 9

RECURSIVE DigitsVal(_, _)
DigitsVal(s, acc) ==
    IF s = <<>> THEN acc ELSE DigitsVal(Tail(s), 10 * acc + DigitVal(Head(s)))

AllDigits(s) == s # <<>> /\ \A i \in DOMAIN s : IsDigit(s[i])

\* pd.to_numeric(..., errors="coerce") of one cell, on integer literals:
\* an optional sign and digits give the number, anything else NaN
to_numeric(c) ==
    IF c.k # "str" THEN c
    ELSE IF AllDigits(c.s) THEN Num(DigitsVal(c.s, 0))
    ELSE IF c.s # <<>> /\ Head(c.s) \in {"-", "+"} /\ AllDigits(Tail(c.s))
         THEN Num((IF Head(c.s) = "-" THEN -1 ELSE 1) * DigitsVal(Tail(c.s), 0))
    ELSE NaN

\* a variant of replace that also replaces a cell that merely contains a marker
replace_substring(c, note_chars, na_values) ==
    IF c.k = "str" /\ (\E i \in DOMAIN c.s : <<c.s[i]>> \in Range(note_chars))
    THEN na_values ELSE c

\* Series.replace(note_chars, na_values): whole cells equal to a marker
replace(c, note_chars, na_values) ==
    IF c.k = "str" /\ c.s \in Range(note_chars) THEN na_values ELSE c

\* df.assign(**{col: f(df[col])})
MapCol(df, col, f(_)) ==
    [df EXCEPT !.rows = [r \in DOMAIN df.rows |->
                            [df.rows[r] EXCEPT ![col] = f(df.rows[r][col])]]]

StatData(out) == Get(Get(out, "GET_STATS_DATA", EmptyObj), "STATISTICAL_DATA", EmptyObj)

note_chars_of(note) ==
    CASE note.t = "list" -> [i \in DOMAIN note.v |-> note.v[i]["@char"]]
      [] note.t = "dict" -> <<note.v[1]["@char"]>>
      [] OTHER -> <<>>

_handle_missing_values(value_df, out, na_values) ==
    LET note == Get(Get(StatData(out), "DATA_INF", EmptyObj), "NOTE", None)
        note_chars == IF Truthy(note) THEN note_chars_of(note) ELSE <<>>
        doReplace == note_chars # <<>>
        doNumeric == na_values.k = "nan"
        f(c) == LET c1 == IF doReplace THEN replace(c, note_chars, na_values) ELSE c
                IN  IF doNumeric THEN to_numeric(c1) ELSE c1
    IN  IF (doReplace \/ doNumeric) /\ <<"$">> \notin ColSet(value_df)
        THEN Err("KeyError")
        ELSE MapCol(value_df, <<"$">>, f)

\* the class table of one class object, indexed by "@code" and renamed:
\* a sequence of [code, attrs] where attrs maps the renamed columns to cells
ClassPrefix(co, name_or_id) ==
    IF name_or_id = "id" THEN co["@id"] \o <<"_">> ELSE <<co["@name"]>>

\* pd.DataFrame(class_data) of a list, pd.DataFrame(pd.Series(class_data)).T of a dict
ClassEntries(class_data) == class_data.v

\* a variant of merge that labels a row without a match with the first entry
merge_first(value_df, id, class_df, prefix) ==
    LET added == SelectSeq(class_df.cols, LAMBDA c : c # <<"@", "code">>)
        newcols == [i \in DOMAIN added |-> prefix \o lstripAt(added[i])]
        joined(row, e) ==
            [n \in ColSet(value_df) \cup Range(newcols) |->
                IF n \in ColSet(value_df) THEN row[n]
                ELSE e[added[CHOOSE i \in DOMAIN added : newcols[i] = n]]]
        matches(row) ==
            SelectSeq(class_df.rows, LAMBDA e : e[<<"@", "code">>] = row[id])
        expand(row) ==
            IF matches(row) = <<>> THEN <<joined(row, class_df.rows[1])>>
            ELSE [j \in DOMAIN matches(row) |-> joined(row, matches(row)[j])]
    IN  [cols |-> value_df.cols \o newcols,
         rows |-> Flatten([r \in DOMAIN value_df.rows |-> expand(value_df.rows[r])])]

\* a variant of merge that joins with how="inner": a row without a match is dropped
merge_inner(value_df, id, class_df, prefix) ==
    LET added == SelectSeq(class_df.cols, LAMBDA c : c # <<"@", "code">>)
        newcols == [i \in DOMAIN added |-> prefix \o lstripAt(added[i])]
        joined(row, e) ==
            [n \in ColSet(value_df) \cup Range(newcols) |->
                IF n \in ColSet(value_df) THEN row[n]
                ELSE e[added[CHOOSE i \in DOMAIN added : newcols[i] = n]]]
        matches(row) ==
            SelectSeq(class_df.rows, LAMBDA e : e[<<"@", "code">>] = row[id])
        expand(row) == [j \in DOMAIN matches(row) |-> joined(row, matches(row)[j])]
    IN  [cols |-> value_df.cols \o newcols,
         rows |-> Flatten([r \in DOMAIN value_df.rows |-> expand(value_df.rows[r])])]

\* value_df.merge(class_df, left_on=id, right_index=True, how="left"): every row
\* of value_df in order, once per entry of class_df with its code, or once with
\* NULLs when there is none
merge(value_df, id, class_df, prefix) ==
    LET added == SelectSeq(class_df.cols, LAMBDA c : c # <<"@", "code">>)
        newname(c) == prefix \o lstripAt(c)
        newcols == [i \in DOMAIN added |-> newname(added[i])]
        joined(row, e) ==
            [n \in ColSet(value_df) \cup Range(newcols) |->
                IF n \in ColSet(value_df) THEN row[n]
                ELSE e[added[CHOOSE i \in DOMAIN added : newcols[i] = n]]]
        nulls == [c \in Range(added) |-> NULL]
        matches(row) ==
            SelectSeq(class_df.rows, LAMBDA e : e[<<"@", "code">>] = row[id])
        expand(row) ==
            IF matches(row) = <<>> THEN <<joined(row, nulls)>>
            ELSE [j \in DOMAIN matches(row) |-> joined(row, matches(row)[j])]
    IN  [cols |-> value_df.cols \o newcols,
         rows |-> Flatten([r \in DOMAIN value_df.rows |-> expand(value_df.rows[r])])]

\* one iteration of the loop of _merge_class_metadata
MergeOne(value_df, co, name_or_id) ==
    LET class_data == Get(co, "CLASS", None)
    IN  IF ~Truthy(class_data) \/ class_data.t \notin {"list", "dict"} THEN value_df
        ELSE LET class_df == FrameOf(ClassEntries(class_data), NanFor)
             IN  IF <<"@", "code">> \notin ColSet(class_df) THEN Err("KeyError")
                 ELSE IF "@id" \notin DOMAIN co THEN Err("KeyError")
                 ELSE IF name_or_id # "id" /\ "@name" \notin DOMAIN co THEN Err("KeyError")
                 ELSE IF co["@id"] \notin ColSet(value_df) THEN Err("KeyError")
                 ELSE merge(value_df, co["@id"], class_df, ClassPrefix(co, name_or_id))

RECURSIVE MergeFrom(_, _, _)
MergeFrom(value_df, class_obj, name_or_id) ==
    IF class_obj = <<>> \/ IsErr(value_df) THEN value_df
    ELSE MergeFrom(MergeOne(value_df, Head(class_obj), name_or_id),
                   Tail(class_obj), name_or_id)

\* a variant of _merge_class_metadata that indexes CLASS_INF and CLASS_OBJ
_merge_class_metadata_strict(value_df, out, name_or_id) ==
    LET class_inf == Get(StatData(out), "CLASS_INF", EmptyObj)
    IN  IF "CLASS_OBJ" \notin DOMAIN class_inf THEN Err("KeyError")
        ELSE IF class_inf["CLASS_OBJ"].t # "list" THEN Err("TypeError")
        ELSE MergeFrom(value_df, class_inf["CLASS_OBJ"].v, name_or_id)

_merge_class_metadata(value_df, out, name_or_id) ==
    LET class_obj == Get(Get(StatData(out), "CLASS_INF", EmptyObj), "CLASS_OBJ", List(<<>>))
    IN  IF class_obj.t # "list" THEN value_df
        ELSE MergeFrom(value_df, class_obj.v, name_or_id)

colname_to_japanese(value) == RenameCols(value, _convert)

_apply_naming_conventions(value_df, attrlist, name_or_id) ==
    LET suffix(c) == IF c \in Range(attrlist) THEN c \o <<"_", "code">> ELSE c
        tovalue(c) == IF c = <<"$", "_", "code">> THEN <<"value">> ELSE c
        ja(c) == IF c = <<"value">> THEN <<JA_value>> ELSE c
        d1 == RenameCols(RenameCols(value_df, suffix), tovalue)
    IN  IF name_or_id = "name" THEN RenameCols(colname_to_japanese(d1), ja) ELSE d1

\* pd.DataFrame(value_data) with value_df.columns = [col.lstrip("@") ...]
ValueFrame(value_data) == RenameCols(FrameOf(value_data, NanFor), lstripAt)

\* a variant of _read_one_data that answers a response without VALUE with an
\* empty table
_read_one_data_guarded(out, cfg) ==
    LET data_inf == Get(StatData(out), "DATA_INF", EmptyObj)
    IN  IF "VALUE" \notin DOMAIN data_inf THEN EmptyDF
        ELSE IF data_inf["VALUE"].t # "list" THEN Err("ValueError")
        ELSE LET value_df == ValueFrame(data_inf["VALUE"].v)
                 attrlist == value_df.cols
                 d1 == _handle_missing_values(value_df, out, cfg.na_values)
                 d2 == IF IsErr(d1) THEN d1
                       ELSE _merge_class_metadata(d1, out, cfg.name_or_id)
             IN  IF IsErr(d2) THEN d2
                 ELSE _apply_naming_conventions(d2, attrlist, cfg.name_or_id)

_read_one_data(out, cfg) ==
    LET data_inf == Get(StatData(out), "DATA_INF", EmptyObj)
    IN  IF "VALUE" \notin DOMAIN data_inf THEN Err("KeyError")
        ELSE IF data_inf["VALUE"].t # "list" THEN Err("ValueError")
        ELSE LET value_df == ValueFrame(data_inf["VALUE"].v)
                 attrlist == value_df.cols
                 d1 == _handle_missing_values(value_df, out, cfg.na_values)
                 d2 == IF IsErr(d1) THEN d1
                       ELSE _merge_class_metadata(d1, out, cfg.name_or_id)
             IN  IF IsErr(d2) THEN d2
                 ELSE _apply_naming_conventions(d2, attrlist, cfg.name_or_id)

\* the columns _denormalize_data drops
DropPatterns(name_or_id) ==
    IF name_or_id = "name"
    THEN {JA_code, JA_level, "unit", JA_unit, JA_parentCode, JA_addInf}
    ELSE {"code", "level", "unit", "parentCode", "addInf"}

\* col.replace("_name", "")
RECURSIVE StripUnderscoreName(_)
StripUnderscoreName(c) ==
    IF Len(c) < 2 THEN c
    ELSE IF c[1] = "_" /\ c[2] = "name" THEN StripUnderscoreName(Tail(Tail(c)))
    ELSE <<Head(c)>> \o StripUnderscoreName(Tail(c))

\* the index of the tables of this pipeline has no name, so the unstack branch
\* (self.tabcol in df.index.names) is never taken
_denormalize_data(data, name_or_id) ==
    LET df == DropCols(data, LAMBDA c : \E p \in DropPatterns(name_or_id) : Contains(c, p))
        clean(c) == rstrip(StripUnderscoreName(c), {JA_mei})
    IN  AssignDrop(df, clean)

\* data["unit"].unique(): the values in order of first appearance
_split_by_units(data, name_or_id) ==
    LET unit_col == IF <<JA_unit, JA_code>> \in ColSet(data) THEN <<JA_unit, JA_code>>
                    ELSE IF <<"unit", "_", "code">> \in ColSet(data)
                         THEN <<"unit", "_", "code">>
                    ELSE <<>>
        unitOf(row) == IF unit_col = <<>> THEN NoUnit
                       ELSE IF row[unit_col] = NULL THEN NoUnit ELSE row[unit_col]
        base == IF unit_col = <<>> THEN data ELSE DropCols(data, LAMBDA c : c = unit_col)
        \* assign(unit=...) replaces a column named unit in place or appends one
        cols == IF <<"unit">> \in Range(base.cols) THEN base.cols
                ELSE Append(base.cols, <<"unit">>)
        withUnit == [cols |-> cols,
                     rows |-> [r \in DOMAIN data.rows |->
                                [n \in Range(cols) |->
                                    IF n = <<"unit">> THEN unitOf(data.rows[r])
                                    ELSE data.rows[r][n]]]]
        units == {withUnit.rows[r][<<"unit">>] : r \in DOMAIN withUnit.rows}
        unit_data(u) == [withUnit EXCEPT !.rows =
                            SelectSeq(withUnit.rows, LAMBDA row : row[<<"unit">>] = u)]
    IN  [u \in units |-> _denormalize_data(unit_data(u), name_or_id)]

\* what StatsDataReader.read returns for the table data that _read produced
ReadResult(data, cfg) ==
    IF cfg.normal THEN data
    ELSE IF cfg.split_units THEN [units |-> _split_by_units(data, cfg.name_or_id)]
    ELSE _denormalize_data(data, cfg.name_or_id)

-----------------------------------------------------------------------------
(* Responses of getStatsData *)

\* display names (the "@name" of a class object), opaque tokens
NameTab == "N-tab"
NameCat == "N-cat01"

Rec(tab, unit, val) ==
    (<<"@", "tab">> :> tab) @@ (<<"$">> :> Str(val))
    @@ (IF unit = NULL THEN EmptyObj ELSE (<<"@", "unit">> :> unit))

RecCat(tab, cat, unit, val) == Rec(tab, unit, val) @@ (<<"@", "cat", "01">> :> cat)

Entry(code, name) ==
    (<<"@", "code">> :> code) @@ (<<"@", "name">> :> name) @@ (<<"@", "level">> :> "1")

ClassObj(id, name, class) ==
    ("@id" :> id) @@ ("@name" :> name) @@ ("CLASS" :> class)

TabFull == ClassObj(<<"tab">>, NameTab, List(<<Entry("01", "t-one"), Entry("02", "t-two")>>))
TabSingle == ClassObj(<<"tab">>, NameTab, Dict(Entry("01", "t-one")))
TabEmpty == ClassObj(<<"tab">>, NameTab, List(<<>>))
CatFull == ClassObj(<<"cat", "01">>, NameCat, List(<<Entry("A", "c-a"), Entry("B", "c-b")>>))

\* GET_STATS_DATA envelope with STATISTICAL_DATA
Envelope(status, total, class_inf, data_inf) ==
    [GET_STATS_DATA |->
        [RESULT |-> [STATUS |-> status, ERROR_MSG |-> ""],
         STATISTICAL_DATA |->
            ("TABLE_INF" :> [OVERALL_TOTAL_NUMBER |-> total])
            @@ class_inf @@ data_inf]]

\* the envelope of an API error: RESULT only
ErrorEnvelope(status, msg) ==
    [GET_STATS_DATA |-> [RESULT |-> [STATUS |-> status, ERROR_MSG |-> msg]]]

ClassInf(class_obj) == "CLASS_INF" :> [CLASS_OBJ |-> class_obj]

DataInf(value, note) ==
    "DATA_INF" :> (("VALUE" :> value) @@ (IF note = None THEN EmptyObj ELSE "NOTE" :> note))

Note(ch) == ("@char" :> ch) @@ ("$" :> <<"d", "e", "s", "c">>)

-----------------------------------------------------------------------------
(* PipeSpec: the inputs *)

PipeValues == { <<"1", "2">>, <<"-">>, <<"-", "1">>, <<"*">> }

PipeRecords ==
    { Rec("01", "yen", v) : v \in PipeValues }
    \cup { Rec("02", "nin", <<"1">>), Rec("01", NULL, <<"1">>) }
    \cup { RecCat("01", "A", "yen", <<"1">>), RecCat("02", "C", "nin", <<"2">>) }

RECURSIVE SeqsUpTo(_, _)
SeqsUpTo(S, n) ==
    IF n = 0 THEN {<<>>}
    ELSE LET shorter == SeqsUpTo(S, n - 1)
         IN  shorter \cup {Append(q, x) : q \in shorter, x \in S}

PipeNotes ==
    { None, List(<<>>), Dict(Note(<<"-">>)), List(<<Note(<<"-">>), Note(<<"*">>)>>),
      List(<<Note(<<"1">>)>>) }

PipeClassInf ==
    { EmptyObj, ClassInf(List(<<>>)), ClassInf(Other),
      ClassInf(List(<<TabFull>>)), ClassInf(List(<<TabSingle>>)),
      ClassInf(List(<<TabEmpty>>)),
      ClassInf(List(<<TabFull, CatFull>>)), ClassInf(List(<<CatFull, TabFull>>)) }

PipeResponses ==
    { Envelope("0", 2, ci, DataInf(List(v), nt)) :
        ci \in PipeClassInf, v \in SeqsUpTo(PipeRecords, MaxRows), nt \in PipeNotes }
    \cup { ErrorEnvelope("100", "not found"), Envelope("0", 0, EmptyObj, EmptyObj) }

PipeConfigs ==
    [name_or_id : {"name", "id"}, na_values : {NaN, Str(<<"N", "A">>)}]

-----------------------------------------------------------------------------
(* Attributes *)

NoneAttr == "None"
\* the attributes modelled: of RESULT and PARAMETER, of the list readers'
\* DATALIST_INF / DATA_CATALOG_LIST_INF, and of TABLE_INF; the attribute
\* TABLE_INF itself is "{}" for an empty mapping and "{...}" for any other
NoAttrs ==
    [STATUS |-> NoneAttr, ERROR_MSG |-> NoneAttr, LANG |-> NoneAttr,
     NUMBER |-> NoneAttr, NEXT_KEY |-> NoneAttr,
     TABLE_INF |-> NoneAttr, STATISTICS_NAME |-> NoneAttr, CYCLE |-> NoneAttr,
     TITLE |-> NoneAttr, GOV_ORG |-> NoneAttr]

\* a JSON string where the source tests the type of the value
JStr(x) == [t |-> "str", v |-> <<x>>]

\* the RESULT and PARAMETER parts of _store_stats_metadata, _store_response_metadata,
\* _store_params_in_attrs and _store_catalog_metadata, for the envelope under key top
StoreResult(json, top) ==
    LET res == Get(Get(json, top, EmptyObj), "RESULT", EmptyObj)
        parameter == Get(Get(json, top, EmptyObj), "PARAMETER", EmptyObj)
    IN  [NoAttrs EXCEPT !.STATUS = Get(res, "STATUS", NoneAttr),
                        !.ERROR_MSG = Get(res, "ERROR_MSG", NoneAttr),
                        !.LANG = Get(parameter, "LANG", NoneAttr)]

MappingAttr(obj) == IF DOMAIN obj = {} THEN "{}" ELSE "{...}"

\* a variant of _store_stats_metadata that reads TITLE and GOV_ORG without defaults
_store_stats_metadata_noDefault(out) ==
    LET table_inf == Get(StatData(out), "TABLE_INF", EmptyObj)
        plain(key) ==
            IF key \notin DOMAIN table_inf THEN NoneAttr
            ELSE IF table_inf[key].t = "dict" THEN Get(table_inf[key].v[1], "$", NoneAttr)
            ELSE table_inf[key].v[1]
    IN  [StoreResult(out, "GET_STATS_DATA") EXCEPT
            !.TABLE_INF = MappingAttr(table_inf),
            !.STATISTICS_NAME = Get(table_inf, "STATISTICS_NAME", NoneAttr),
            !.CYCLE = Get(table_inf, "CYCLE", NoneAttr),
            !.TITLE = plain("TITLE"),
            !.GOV_ORG = plain("GOV_ORG")]

_store_stats_metadata(out) ==
    LET table_inf == Get(StatData(out), "TABLE_INF", EmptyObj)
        title == Get(table_inf, "TITLE", JStr(""))
        gov_org == Get(table_inf, "GOV_ORG", Dict(EmptyObj))
    IN  [StoreResult(out, "GET_STATS_DATA") EXCEPT
            !.TABLE_INF = MappingAttr(table_inf),
            !.STATISTICS_NAME = Get(table_inf, "STATISTICS_NAME", NoneAttr),
            !.CYCLE = Get(table_inf, "CYCLE", NoneAttr),
            !.TITLE = IF title.t = "dict" THEN Get(title.v[1], "$", "") ELSE title.v[1],
            !.GOV_ORG = IF gov_org.t = "dict" THEN Get(gov_org.v[1], "$", "")
                        ELSE gov_org.v[1]]

\* _store_params_in_attrs of MetaInfoReader
_store_params_in_attrs(json_data) ==
    LET table_inf == Get(Get(Get(json_data, "GET_META_INFO", EmptyObj),
                             "METADATA_INF", EmptyObj), "TABLE_INF", EmptyObj)
    IN  [StoreResult(json_data, "GET_META_INFO") EXCEPT
            !.TABLE_INF = MappingAttr(table_inf),
            !.STATISTICS_NAME = Get(table_inf, "STATISTICS_NAME", NoneAttr),
            !.CYCLE = Get(table_inf, "CYCLE", NoneAttr)]

\* _store_response_metadata and _store_catalog_metadata, inf_key being
\* DATALIST_INF or DATA_CATALOG_LIST_INF
_store_response_metadata(json, top, inf_key) ==
    LET inf == Get(Get(json, top, EmptyObj), inf_key, EmptyObj)
        result_inf == Get(inf, "RESULT_INF", EmptyObj)
    IN  [StoreResult(json, top) EXCEPT
            !.NUMBER = Get(inf, "NUMBER", NoneAttr),
            !.NEXT_KEY = Get(result_inf, "NEXT_KEY", NoneAttr)]

\* the metadata a reader of the given kind stores from a response
store_metadata(kind, json) ==
    CASE kind = "StatsData" -> _store_stats_metadata(json)
      [] kind = "MetaInfo" -> _store_params_in_attrs(json)
      [] kind = "StatsList" -> _store_response_metadata(json, "GET_STATS_LIST", "DATALIST_INF")
      [] OTHER -> _store_response_metadata(json, "GET_DATA_CATALOG", "DATA_CATALOG_LIST_INF")

-----------------------------------------------------------------------------
(* The readers of Spec and the responses of the API *)

\* self.limit: None, or a number of records
NoLimit == [none |-> TRUE, n |-> 0]
Limit(n) == [none |-> FALSE, n |-> n]

Kinds == {"StatsList", "MetaInfo", "StatsData", "DataCatalog"}

\* the key of the envelope of each endpoint
TopKey(kind) ==
    CASE kind = "StatsList" -> "GET_STATS_LIST"
      [] kind = "MetaInfo" -> "GET_META_INFO"
      [] kind = "StatsData" -> "GET_STATS_DATA"
      [] OTHER -> "GET_DATA_CATALOG"

\* the record_path handed to pd.json_normalize
record_path(kind) ==
    IF kind = "StatsList" THEN <<"GET_STATS_LIST", "DATALIST_INF", "TABLE_INF">>
    ELSE <<"GET_DATA_CATALOG", "DATA_CATALOG_LIST_INF", "DATA_CATALOG_INF">>

\* the public calls of each reader; normal and split_units are the arguments
\* of StatsDataReader.read
PublicOp(name, normal, split_units) ==
    [name |-> name, normal |-> normal, split_units |-> split_units]

Ops(kind) ==
    {PublicOp("read_json", TRUE, FALSE)}
    \cup (IF kind = "StatsData"
          THEN {PublicOp("read", n, s) : n \in BOOLEAN, s \in BOOLEAN}
          ELSE {PublicOp("read", TRUE, FALSE)})
    \cup (IF kind = "MetaInfo" THEN {PublicOp("read_class_obj_dfs", TRUE, FALSE)} ELSE {})

\* the public calls whose body is a try ... finally: self.close()
Closes(o) == o.name # "read_class_obj_dfs"

\* the envelope of an API error of any endpoint: RESULT only
ApiError(kind) ==
    TopKey(kind) :> [RESULT |-> [STATUS |-> "100", ERROR_MSG |-> "not found"]]

ListRec(id) == (<<"@", "id">> :> id) @@ (<<"TITLE", "_", "$">> :> "title") @@ (<<"CYCLE">> :> "-")

\* an answer of getStatsList or getDataCatalog carrying the records recs
ListEnvelope(kind, recs) ==
    TopKey(kind) :>
        (("RESULT" :> [STATUS |-> "0", ERROR_MSG |-> "ok"])
         @@ (record_path(kind)[2] :> (record_path(kind)[3] :> recs)))


\* pd.json_normalize(out, record_path=path): the records under the path; a
\* missing key is a KeyError, a value that is neither a list nor null a TypeError
RECURSIVE Pull(_, _)
Pull(obj, path) ==
    IF path = <<>> THEN obj
    ELSE IF Head(path) \notin DOMAIN obj THEN Err("KeyError")
    ELSE Pull(obj[Head(path)], Tail(path))

json_normalize(out, path) ==
    LET recs == Pull(out, path)
    IN  IF IsErr(recs) THEN recs
        ELSE IF recs.t = "list" THEN FrameOf(recs.v, NanFor)
        ELSE IF recs.t = "none" THEN EmptyDF
        ELSE Err("TypeError")

\* the table of StatsListReader._read_one_data and DataCatalogReader._read_one_data
ListTable(out, kind) ==
    LET table_inf == json_normalize(out, record_path(kind))
        clean(col) == rstrip(ReplaceToken(col, "@", ""), {"_", "$"})
    IN  IF IsErr(table_inf) THEN table_inf ELSE AssignDrop(table_inf, clean)

\* MetaInfoReader with its default options (prefix_colname_with_classname
\* True, has_lv_hierarchy False, lang None)
_create_class_dataframe_raw(class_data) ==
    IF ~Truthy(class_data) \/ class_data.t \notin {"list", "dict"} THEN NoResult
    ELSE FrameOf(ClassEntries(class_data), NanFor)

_apply_column_transformations(df, class_name) ==
    LET prefixed(col) == <<class_name>> \o lstripAt(col)
        named(col) == IF col = <<>> THEN <<class_name>> ELSE col
    IN  RenameCols(colname_to_japanese(RenameCols(df, prefixed)), named)

\* a variant of ClassTables that gives up the rest of the response at the first
\* classification it cannot build
RECURSIVE ClassTables_stopAtBad(_)
ClassTables_stopAtBad(class_obj) ==
    IF class_obj = <<>> THEN <<>>
    ELSE LET co == Head(class_obj)
             raw == _create_class_dataframe_raw(Get(co, "CLASS", None))
         IN  IF \/ Get(co, "@id", <<>>) = <<>>
                \/ Get(co, "@name", "") = ""
                \/ raw = NoResult
             THEN <<>>
             ELSE << [id |-> co["@id"], name |-> co["@name"],
                      meta_dataframe |->
                          _apply_column_transformations(raw, co["@name"])] >>
                  \o ClassTables_stopAtBad(Tail(class_obj))

RECURSIVE ClassTables(_)
ClassTables(class_obj) ==
    IF class_obj = <<>> THEN <<>>
    ELSE LET co == Head(class_obj)
             raw == _create_class_dataframe_raw(Get(co, "CLASS", None))
         IN  (IF \/ Get(co, "@id", <<>>) = <<>>
                 \/ Get(co, "@name", "") = ""
                 \/ raw = NoResult
              THEN <<>>
              ELSE << [id |-> co["@id"], name |-> co["@name"],
                       meta_dataframe |->
                           _apply_column_transformations(raw, co["@name"])] >>)
             \o ClassTables(Tail(class_obj))

read_class_obj_dfs(json_data) ==
    LET meta_info == Get(json_data, "GET_META_INFO", EmptyObj)
        class_obj == Get(Get(Get(meta_info, "METADATA_INF", EmptyObj),
                             "CLASS_INF", EmptyObj), "CLASS_OBJ", List(<<>>))
    IN  IF class_obj.t # "list" THEN <<>> ELSE ClassTables(class_obj.v)

\* a variant of Largest that keeps the last of the tables with the most rows
RECURSIVE Largest_lastOnTies(_, _, _)
Largest_lastOnTies(result_dfs, max_rows, largest_df) ==
    IF result_dfs = <<>> THEN largest_df
    ELSE LET class_data == Head(result_dfs)
             df == class_data.meta_dataframe
         IN  IF class_data.id # <<"time">> /\ Len(df.rows) >= max_rows
             THEN Largest_lastOnTies(Tail(result_dfs), Len(df.rows), df)
             ELSE Largest_lastOnTies(Tail(result_dfs), max_rows, largest_df)

\* the loop of MetaInfoReader.read over result_dfs
RECURSIVE Largest(_, _, _)
Largest(result_dfs, max_rows, largest_df) ==
    IF result_dfs = <<>> THEN largest_df
    ELSE LET class_data == Head(result_dfs)
             df == class_data.meta_dataframe
         IN  IF class_data.id # <<"time">> /\ Len(df.rows) > max_rows
             THEN Largest(Tail(result_dfs), Len(df.rows), df)
             ELSE Largest(Tail(result_dfs), max_rows, largest_df)

\* ptrans.get(id); "" stands for None
ptrans(id) ==
    CASE id = <<"tab">> -> "cdTab"
      [] id = <<"time">> -> "cdTime"
      [] id = <<"area">> -> "cdArea"
      [] id = <<"cat", "01">> -> "cdCat01"
      [] id = <<"cat", "02">> -> "cdCat02"
      [] id = <<"cat", "03">> -> "cdCat03"
      [] OTHER -> ""

\* cls_info: [index, id, size] of the class objects whose CLASS is a list
cls_info(class_obj) ==
    LET listed == SelectSeq([n \in DOMAIN class_obj |-> n],
                            LAMBDA n : Get(class_obj[n], "CLASS", None).t = "list")
    IN  [i \in DOMAIN listed |->
            [index |-> listed[i], id |-> class_obj[listed[i]]["@id"],
             size |-> Len(class_obj[listed[i]]["CLASS"].v)]]

\* sort_values("size", ascending=False); rows of equal size keep their order
RECURSIVE SortBySize(_)
SortBySize(rows) ==
    IF rows = <<>> THEN <<>>
    ELSE LET m == CHOOSE i \in DOMAIN rows :
                    /\ \A j \in DOMAIN rows : rows[j].size <= rows[i].size
                    /\ \A j \in 1..(i - 1) : rows[j].size < rows[i].size
         IN  <<rows[m]>> \o
             SortBySize([k \in 1..(Len(rows) - 1) |-> IF k < m THEN rows[k] ELSE rows[k + 1]])

\* the loop that picks the split parameters
RECURSIVE PickParams(_, _, _, _)
PickParams(rows, class_obj, remaining_total, acc) ==
    IF rows = <<>> \/ IsErr(acc) THEN acc
    ELSE LET row == Head(rows)
             param_name == ptrans(row.id)
             class_codes == [e \in DOMAIN class_obj[row.index]["CLASS"].v |->
                                class_obj[row.index]["CLASS"].v[e][<<"@", "code">>]]
         IN  IF param_name = "" THEN PickParams(Tail(rows), class_obj, remaining_total, acc)
             ELSE IF row.size = 0 THEN Err("ZeroDivisionError")
             ELSE LET picked == [param_names |-> Append(acc.param_names, param_name),
                                 codes |-> Append(acc.codes, class_codes)]
                  IN  IF remaining_total \div row.size < PageCap THEN picked
                      ELSE PickParams(Tail(rows), class_obj,
                                      remaining_total \div row.size, picked)

RECURSIVE _generate_parameter_combinations(_)
_generate_parameter_combinations(codes) ==
    IF codes = <<>> THEN <<>>
    ELSE LET code_list == codes[Len(codes)]
             before == SubSeq(codes, 1, Len(codes) - 1)
             res == IF before = <<>> THEN << <<>> >>
                    ELSE _generate_parameter_combinations(before)
         IN  Flatten([e \in DOMAIN res |->
                        [c \in DOMAIN code_list |-> Append(res[e], code_list[c])]])

\* the plan of _read_with_classification_split: the parameter names and the
\* combinations of codes to request, in order
SplitPlan(sample_response, total_number) ==
    LET class_inf == Get(StatData(sample_response), "CLASS_INF", EmptyObj)
    IN  IF "CLASS_OBJ" \notin DOMAIN class_inf THEN Err("KeyError")
        ELSE IF class_inf["CLASS_OBJ"].t # "list" THEN Err("AttributeError")
        ELSE LET class_obj == class_inf["CLASS_OBJ"].v
                 picked == PickParams(SortBySize(cls_info(class_obj)), class_obj,
                                      total_number,
                                      [param_names |-> <<>>, codes |-> <<>>])
             IN  IF IsErr(picked) THEN picked
                 ELSE [param_names |-> picked.param_names,
                       combos |-> _generate_parameter_combinations(picked.codes)]

-----------------------------------------------------------------------------
(* Spec: the answers the server may give *)

Cat3 ==
    ClassObj(<<"cat", "01">>, NameCat,
             List(<<Entry("A", "c-a"), Entry("B", "c-b"), Entry("C", "c-c")>>))

Cat1 == ClassObj(<<"cat", "01">>, NameCat, List(<<Entry("A", "c-a")>>))

\* a fourth category slot, which ptrans does not list
Cat04 ==
    ClassObj(<<"cat", "04">>, NameCat,
             List(<<Entry("X", "c-x"), Entry("Y", "c-y"), Entry("Z", "c-z")>>))

\* data answers of getStatsData
DataOne ==
    Envelope("0", 1, ClassInf(List(<<TabFull>>)),
             DataInf(List(<<Rec("01", "yen", <<"1">>)>>), None))
DataTwo ==
    Envelope("0", 2, ClassInf(List(<<TabFull>>)),
             DataInf(List(<<Rec("02", "nin", <<"2">>), Rec("01", "yen", <<"-">>)>>),
                     Dict(Note(<<"-">>))))

\* a page that is not the last of its query: the server names the row the next
\* page starts at in RESULT_INF.NEXT_KEY
DataMore ==
    [DataTwo EXCEPT !.GET_STATS_DATA.STATISTICAL_DATA =
                        @ @@ ("RESULT_INF" :> ("NEXT_KEY" :> "100001"))]

\* an answer to the probe reporting total records and the class objects class_obj
Probe(total, class_obj) ==
    Envelope("0", total, ClassInf(List(class_obj)),
             DataInf(List(<<Rec("01", "yen", <<"1">>)>>), None))

\* answers without DATA_INF, and with a DATA_INF that holds no VALUE
NoDataInf == Envelope("0", 0, ClassInf(List(<<TabFull>>)), EmptyObj)
NoValue == Envelope("0", 0, ClassInf(List(<<TabFull>>)), "DATA_INF" :> EmptyObj)

StatsDataResponses(phase) ==
    IF phase = "probe"
    THEN { ApiError("StatsData"), DataTwo,
           Probe(PageCap, <<TabFull>>),
           Probe(PageCap + 50000, <<TabFull>>),
           Probe(2 * PageCap + 50000, <<TabFull, Cat3>>),
           Probe(3 * PageCap, <<Cat1, TabFull>>),
           Probe(PageCap + 50000, <<TabFull, Cat04>>),
           Probe(PageCap + 50000, <<TabSingle>>),
           Probe(PageCap + 50000, <<Cat04>>),
           Envelope("0", PageCap + 1, EmptyObj, EmptyObj) }
    ELSE { ApiError("StatsData"), DataOne, DataTwo }
         \cup (IF phase = "single"
               THEN { Probe(PageCap + 50000, <<TabFull>>), NoDataInf, NoValue }
               ELSE { DataMore })

MetaEnvelope(class_obj) ==
    [GET_META_INFO |->
        [RESULT |-> [STATUS |-> "0", ERROR_MSG |-> "ok"],
         METADATA_INF |-> [CLASS_INF |-> [CLASS_OBJ |-> class_obj]]]]

TimeFull ==
    ClassObj(<<"time">>, "N-time",
             List(<<Entry("2020", "y20"), Entry("2021", "y21"), Entry("2022", "y22")>>))

\* class objects without @id, without @name, and with a CLASS that is neither
\* an entry nor a list of entries
NoIdClass == ("@name" :> NameCat) @@ ("CLASS" :> List(<<Entry("A", "c-a")>>))
NoNameClass == ("@id" :> <<"cat", "02">>) @@ ("CLASS" :> List(<<Entry("A", "c-a")>>))
BadClass == ClassObj(<<"area">>, "N-area", Other)

Responses(kind, phase) ==
    CASE kind = "StatsData" -> StatsDataResponses(phase)
      [] kind = "MetaInfo" ->
            { ApiError(kind), MetaEnvelope(List(<<TabFull, TimeFull>>)),
              MetaEnvelope(List(<<TabSingle, CatFull, TabEmpty>>)), MetaEnvelope(Other),
              MetaEnvelope(List(<<TabFull, CatFull, TimeFull>>)),
              MetaEnvelope(List(<<TimeFull>>)),
              MetaEnvelope(List(<<NoIdClass, TabFull, NoNameClass, BadClass, CatFull>>)) }
      [] OTHER ->
            { ApiError(kind), ListEnvelope(kind, List(<<ListRec("0001")>>)),
              ListEnvelope(kind, List(<<ListRec("0002"), ListRec("0003")>>)) }

-----------------------------------------------------------------------------
(* Spec: one reader serving public read calls *)

\* the query parameters that matter here: limit, the codes of the split, and
\* startPosition, which is the reader's own (None here) in every request
Params(limit, cd) == [limit |-> limit, cd |-> cd, startPosition |-> NoneAttr]

NewCall(phase, params) ==
    [phase |-> phase, params |-> params, statuses |-> <<>>,
     ended |-> "running", resp |-> NoResult, table |-> NoResult]

NoPlan == [param_names |-> <<>>, combos |-> <<>>]

Readers ==
    [kind : Kinds, limit : {NoLimit, Limit(PageCap), Limit(10)},
     retry_count : 0..MaxRetry, name_or_id : {"name", "id"}, na_values : {NaN}]

\* the variables of PipeSpec, at rest
PipeOff ==
    /\ p_cfg = [name_or_id |-> "name", na_values |-> NaN]
    /\ p_out = EmptyObj
    /\ p_stage = "off"
    /\ p_df = EmptyDF
    /\ p_raw = EmptyDF
    /\ p_pre = EmptyDF
    /\ p_res = NoResult

\* the variables of the specifications of single functions, at rest
NameOff == n_hist = <<>>
HierOff == h_in = NoResult /\ h_out = NoResult
KeyOff == k_in = NoResult /\ k_env = EmptyObj /\ k_out = NoResult

ParamOff == q_cfg = NoResult /\ q_out = <<>>

AttrOff == a_in = NoResult /\ a_out = NoResult

WalkOff == w_in = <<>> /\ w_st = NoResult

FetchOff == g_st = NoResult

FunIdle == NameOff /\ HierOff /\ KeyOff /\ ParamOff /\ AttrOff /\ WalkOff /\ FetchOff

Init ==
    /\ reader \in {r \in Readers :
                     r.kind # "StatsData" => r.limit = Limit(PageCap) /\ r.name_or_id = "name"}
    /\ session = "open"
    /\ pc = "idle"
    /\ op = PublicOp("none", TRUE, FALSE)
    /\ calls = <<>>
    /\ sample = EmptyObj
    /\ plan = NoPlan
    /\ idx = 0
    /\ dfs = <<>>
    /\ outcome = "none"
    /\ result = NoResult
    /\ attrs = NoAttrs
    /\ PipeOff
    /\ FunIdle

\* a variant of Call in which StatsDataReader.read probes whatever the limit
Call_alwaysProbe(o) ==
    /\ pc \in {"idle", "done"}
    /\ o \in Ops(reader.kind)
    /\ op' = o
    /\ pc' = "get"
    /\ calls' = << IF reader.kind = "StatsData" /\ o.name = "read"
                   THEN NewCall("probe", Params(Limit(1), <<>>))
                   ELSE NewCall("single", Params(reader.limit, <<>>)) >>
    /\ sample' = EmptyObj
    /\ plan' = NoPlan
    /\ idx' = 0
    /\ dfs' = <<>>
    /\ outcome' = "none"
    /\ result' = NoResult
    /\ UNCHANGED <<reader, session, attrs, pipeVars, funVars>>

\* a public call begins and reaches its first _get_response: the probe with
\* limit=1 when StatsDataReader.read finds self.limit None, self.params otherwise
Call(o) ==
    /\ pc \in {"idle", "done"}
    /\ o \in Ops(reader.kind)
    /\ op' = o
    /\ pc' = "get"
    /\ calls' = << IF reader.kind = "StatsData" /\ o.name = "read" /\ reader.limit.none
                   THEN NewCall("probe", Params(Limit(1), <<>>))
                   ELSE NewCall("single", Params(reader.limit, <<>>)) >>
    /\ sample' = EmptyObj
    /\ plan' = NoPlan
    /\ idx' = 0
    /\ dfs' = <<>>
    /\ outcome' = "none"
    /\ result' = NoResult
    /\ UNCHANGED <<reader, session, attrs, pipeVars, funVars>>

cur == calls[Len(calls)]

readerCfg == [name_or_id |-> reader.name_or_id, na_values |-> reader.na_values]
opCfg == [name_or_id |-> reader.name_or_id, normal |-> op.normal,
          split_units |-> op.split_units]

\* what the running call does next: "retry" another attempt, "request" a new
\* _get_response, "return" to the caller or "raise" to the caller
Stay ==
    [k |-> "retry", value |-> NoResult, exc |-> "none", phase |-> "none",
     params |-> Params(NoLimit, <<>>), sample |-> sample, plan |-> plan, idx |-> idx,
     dfs |-> dfs, attrs |-> attrs, table |-> NoResult]

Return(st, v) == [st EXCEPT !.k = "return", !.value = v]
Raise(st, e) == [st EXCEPT !.k = "raise", !.exc = e]
Request(st, phase, params) == [st EXCEPT !.k = "request", !.phase = phase, !.params = params]

\* split_params of combination i
SplitParams(pl, i) ==
    Params(reader.limit,
           [n \in Range(pl.param_names) |->
               pl.combos[i][IndexFrom(pl.param_names, n, 1)]])

\* a variant of Partitions that ends the loop at the first combination that gave no table
Partitions_stopOnFailure(st, pl, i) ==
    IF i <= Len(pl.combos) /\ Len(st.dfs) = i - 1
    THEN [Request(st, "partition", SplitParams(pl, i)) EXCEPT !.idx = i]
    ELSE Return(st, ReadResult(IF st.dfs = <<>> THEN EmptyDF ELSE Concat(st.dfs), opCfg))

\* the loop over codes_product, from combination i on, and the return of read
Partitions(st, pl, i) ==
    IF i <= Len(pl.combos)
    THEN [Request(st, "partition", SplitParams(pl, i)) EXCEPT !.idx = i]
    ELSE Return(st, ReadResult(IF st.dfs = <<>> THEN EmptyDF ELSE Concat(st.dfs), opCfg))

\* a variant of WithinCap that sends a total equal to the cap to the split
WithinCap_strict(total_number) == total_number < PageCap

\* total_number <= 100000
WithinCap(total_number) == total_number <= PageCap

\* StatsDataReader.read after a response out of the request in progress
StatsDataRead(out) ==
    LET stat == Get(Get(out, "GET_STATS_DATA", EmptyObj), "STATISTICAL_DATA", EmptyObj)
        table_inf == Get(stat, "TABLE_INF", EmptyObj)
        df == _read_one_data(out, readerCfg)
        stored == [Stay EXCEPT !.attrs = _store_stats_metadata(out), !.table = df]
    IN  CASE cur.phase = "probe" ->
                IF "OVERALL_TOTAL_NUMBER" \notin DOMAIN table_inf THEN Raise(Stay, "KeyError")
                ELSE IF WithinCap(table_inf["OVERALL_TOTAL_NUMBER"])
                     THEN Request(Stay, "single", Params(reader.limit, <<>>))
                ELSE LET pl == SplitPlan(out, table_inf["OVERALL_TOTAL_NUMBER"])
                     IN  IF IsErr(pl) THEN Raise(Stay, pl.err)
                         ELSE Partitions([Stay EXCEPT !.sample = out, !.plan = pl], pl, 1)
          [] cur.phase = "single" ->
                IF IsErr(df) THEN Raise(stored, df.err)
                ELSE Return(stored, ReadResult(df, opCfg))
          [] OTHER ->
                \* except Exception: print(...); continue
                Partitions(IF IsErr(df) THEN stored
                           ELSE [stored EXCEPT !.dfs = Append(dfs, df)], plan, idx + 1)

\* the rest of the public call once _get_response has returned the answer out
AfterResponse(out) ==
    LET kind == reader.kind
        own == store_metadata(kind, out)
    IN  CASE op.name = "read_json" ->
                Return([Stay EXCEPT !.attrs =
                            CASE kind = "StatsData" ->
                                    _store_stats_metadata(Get(out, "GET_STATS_DATA", EmptyObj))
                              [] kind = "DataCatalog" -> attrs
                              [] OTHER -> own], out)
          [] kind = "StatsData" -> StatsDataRead(out)
          [] kind = "MetaInfo" ->
                LET result_dfs == read_class_obj_dfs(out)
                    st == [Stay EXCEPT !.attrs = own]
                IN  IF op.name = "read_class_obj_dfs" THEN Return(st, result_dfs)
                    ELSE Return(st, Largest(result_dfs, 0, EmptyDF))
          [] OTHER ->
                LET table == ListTable(out, kind)
                    st == [Stay EXCEPT !.attrs = own, !.table = table]
                IN  IF IsErr(table) THEN Raise(st, table.err) ELSE Return(st, table)

\* a variant of AfterException in which every request is inside the try of the split
AfterException_swallow(e) == Partitions(Stay, plan, idx + 1)

\* the rest of the public call once _get_response has raised e: only the
\* requests of the split are inside a try ... except Exception
AfterException(e) ==
    IF cur.phase = "partition" THEN Partitions(Stay, plan, idx + 1) ELSE Raise(Stay, e)

\* one attempt of the loop of _get_response has ended with status; ended tells
\* how this _get_response ended, if it did; st is what the caller does next
Attempt(status, ended, out, st) ==
    LET logged == [calls EXCEPT ![Len(calls)] =
                      [cur EXCEPT !.statuses = Append(@, status), !.ended = ended,
                                  !.resp = out, !.table = st.table]]
        over == st.k \in {"return", "raise"}
    IN  /\ calls' = IF st.k = "request" THEN Append(logged, NewCall(st.phase, st.params))
                    ELSE logged
        /\ pc' = IF over THEN "done" ELSE "get"
        /\ outcome' = CASE st.k = "return" -> "returned"
                        [] st.k = "raise" -> st.exc
                        [] OTHER -> "none"
        /\ result' = IF st.k = "return" THEN st.value ELSE NoResult
        \* session.get uses the session; the finally clause closes it
        /\ session' = IF over /\ Closes(op) THEN "closed" ELSE "open"
        /\ sample' = st.sample
        /\ plan' = st.plan
        /\ idx' = st.idx
        /\ dfs' = st.dfs
        /\ attrs' = st.attrs
        /\ UNCHANGED <<reader, op, pipeVars, funVars>>

\* session.get returns a response whose status is OK: _get_response returns it
GetOk ==
    /\ pc = "get"
    /\ \E out \in Responses(reader.kind, cur.phase) :
        Attempt("ok", "returned", out, AfterResponse(out))

\* a variant of GetNotOk that gives up at the first status that is not OK
GetNotOk_noRetry ==
    /\ pc = "get"
    /\ Attempt("notok", "RemoteDataError", NoResult, AfterException("RemoteDataError"))

\* session.get returns a response whose status is not OK: sleep, and either
\* loop again or, after retry_count + 1 attempts, raise RemoteDataError
GetNotOk ==
    /\ pc = "get"
    /\ IF Len(cur.statuses) + 1 < reader.retry_count + 1
       THEN Attempt("notok", "running", NoResult, Stay)
       ELSE Attempt("notok", "RemoteDataError", NoResult, AfterException("RemoteDataError"))

\* session.get itself raises (timeout, connection failure): nothing in
\* _get_response catches it
GetRaise ==
    /\ pc = "get"
    /\ Attempt("raised", "ConnectionError", NoResult, AfterException("ConnectionError"))

Next == (\E o \in Ops(reader.kind) : Call(o)) \/ GetOk \/ GetNotOk \/ GetRaise

Spec == Init /\ [][Next]_vars

-----------------------------------------------------------------------------
(* PipeSpec: _read_one_data and read of StatsDataReader, stage by stage *)

ProtoIdle ==
    /\ reader = [kind |-> "StatsData", limit |-> Limit(PageCap), retry_count |-> 0,
                 name_or_id |-> "name", na_values |-> NaN]
    /\ session = "open"
    /\ pc = "idle"
    /\ op = [name |-> "none", normal |-> TRUE, split_units |-> FALSE]
    /\ calls = <<>>
    /\ sample = EmptyObj
    /\ plan = [param_names |-> <<>>, combos |-> <<>>]
    /\ idx = 0
    /\ dfs = <<>>
    /\ outcome = "none"
    /\ result = NoResult
    /\ attrs = NoAttrs

PipeInit ==
    /\ ProtoIdle
    /\ p_cfg \in PipeConfigs
    /\ p_out \in PipeResponses
    /\ p_stage = "build"
    /\ p_df = EmptyDF
    /\ p_raw = EmptyDF
    /\ p_pre = EmptyDF
    /\ p_res = NoResult
    /\ FunIdle

PipeStep(next, df) ==
    /\ p_pre' = p_df
    /\ p_df' = df
    /\ p_stage' = IF IsErr(df) THEN "raised" ELSE next
    /\ p_res' = IF IsErr(df) THEN df ELSE p_res
    /\ UNCHANGED <<p_cfg, p_out>>

\* _read_one_data up to the cleaned column names (estat.py 1361-1372)
PBuild ==
    /\ p_stage = "build"
    /\ LET data_inf == Get(StatData(p_out), "DATA_INF", EmptyObj)
           df == IF "VALUE" \notin DOMAIN data_inf THEN Err("KeyError")
                 ELSE IF data_inf["VALUE"].t # "list" THEN Err("ValueError")
                 ELSE ValueFrame(data_inf["VALUE"].v)
       IN  /\ PipeStep("missing", df)
           /\ p_raw' = df
    /\ attrs' = _store_stats_metadata(p_out)
    /\ UNCHANGED <<reader, session, pc, op, calls, sample, plan, idx, dfs, outcome, result, funVars>>

PMissing ==
    /\ p_stage = "missing"
    /\ PipeStep("merge", _handle_missing_values(p_df, p_out, p_cfg.na_values))
    /\ UNCHANGED <<protoVars, p_raw, funVars>>

PMerge ==
    /\ p_stage = "merge"
    /\ PipeStep("naming", _merge_class_metadata(p_df, p_out, p_cfg.name_or_id))
    /\ UNCHANGED <<protoVars, p_raw, funVars>>

PNaming ==
    /\ p_stage = "naming"
    /\ PipeStep("read", _apply_naming_conventions(p_df, p_raw.cols, p_cfg.name_or_id))
    /\ UNCHANGED <<protoVars, p_raw, funVars>>

\* the rest of StatsDataReader.read once _read has produced the table
PRead ==
    /\ p_stage = "read"
    /\ \E normal \in BOOLEAN, split_units \in BOOLEAN :
        p_res' = [normal |-> normal, split_units |-> split_units,
                  value |-> ReadResult(p_df, [name_or_id |-> p_cfg.name_or_id,
                                              normal |-> normal,
                                              split_units |-> split_units])]
    /\ p_stage' = "done"
    /\ UNCHANGED <<protoVars, funVars>>
    /\ UNCHANGED <<p_cfg, p_out, p_df, p_raw, p_pre>>

PipeNext == PBuild \/ PMissing \/ PMerge \/ PNaming \/ PRead

PipeSpec == PipeInit /\ [][PipeNext]_vars

-----------------------------------------------------------------------------
(* NameSpec: colname_to_japanese applied to a table, and again to its result *)

\* pieces of the column names of the API's tables, and two that are no key
NameTokens == {"tab", "cat", "code", "name", "unit", "value", "_", "01"}

ColumnNames == UNION {[1..n -> NameTokens] : n \in 1..MaxTokens}

NameInit ==
    /\ ProtoIdle
    /\ PipeOff
    /\ \E c \in ColumnNames : n_hist = << [cols |-> <<c>>, rows |-> <<>>] >>
    /\ HierOff
    /\ KeyOff
    /\ ParamOff
    /\ AttrOff
    /\ WalkOff
    /\ FetchOff

\* value = colname_to_japanese(value)
Rename ==
    /\ n_hist # <<>>
    /\ Len(n_hist) <= MaxPasses
    /\ n_hist' = Append(n_hist, colname_to_japanese(n_hist[Len(n_hist)]))
    /\ UNCHANGED <<protoVars, pipeVars, h_in, h_out, k_in, k_env, k_out, q_cfg, q_out, a_in, a_out, w_in, w_st, g_st>>

NameNext == Rename

NameSpec == NameInit /\ [][NameNext]_vars


-----------------------------------------------------------------------------
(* HierSpec: MetaInfoReader._create_hierarchy_dataframe on one classification set *)

\* the string the source puts between the class name and the level number
JA_kaisou == "J-kaisou"

CODE == <<"@", "code">>
NAME == <<"@", "name">>
LEVEL == <<"@", "level">>
PARENT == <<"@", "parentCode">>

\* pd.to_numeric(df["@level"], errors="coerce") of one cell, levels of one digit
level_to_numeric(s) == IF IsDigit(s) THEN Num(DigitVal(s)) ELSE NaN

DigitOf(n) == CHOOSE ch \in {"1", "2", "3", "4", "5", "6", "7", "8", "9"} : DigitVal(ch) = n

Max(S) == CHOOSE x \in S : \A y \in S : y <= x

\* row.get("@parentCode"): NULL where the record has no such key
parentCode(e) == Get(e, PARENT, NULL)

\* a variant of parent_codes that takes the first entry for a parent of nothing
parent_codes_skipFirst(entries) ==
    {parentCode(entries[i]) : i \in DOMAIN entries} \ {"", entries[1][CODE]}

\* the set comprehension of parent_codes: the non-empty values of @parentCode
parent_codes(entries) == {parentCode(entries[i]) : i \in DOMAIN entries} \ {""}

\* code_to_record[code]
RecordOf(entries, code) == entries[CHOOSE i \in DOMAIN entries : entries[i][CODE] = code]

\* _get_ancestry_chain: level -> code, from the record up to the first parentCode
\* that is empty or names no record; an ancestor assigned later overwrites
RECURSIVE _get_ancestry_chain(_, _)
_get_ancestry_chain(entries, rec) ==
    LET own == level_to_numeric(rec[LEVEL]).n :> rec[CODE]
        parent_code == parentCode(rec)
    IN  IF parent_code = "" \/ ~\E i \in DOMAIN entries : entries[i][CODE] = parent_code
        THEN own
        ELSE _get_ancestry_chain(entries, RecordOf(entries, parent_code)) @@ own

\* fillna(method="ffill", axis=1) of one row of cells
ffill(cells, null) ==
    [l \in DOMAIN cells |->
        IF \E k \in 1..l : cells[k] # null
        THEN cells[Max({k \in 1..l : cells[k] # null})] ELSE null]

\* the row of one leaf: its level columns, then its "code_name" columns
ChainRow(entries, row, max_level, fill) ==
    LET node_level == level_to_numeric(row[LEVEL]).n
        ancestry == _get_ancestry_chain(entries, row)
        last_code(level) ==
            IF \E k \in 1..level : k \in DOMAIN ancestry
            THEN ancestry[Max({k \in 1..level : k \in DOMAIN ancestry})] ELSE NULL
        row_chain == [level \in 1..max_level |->
                        IF level <= node_level
                        THEN IF level \in DOMAIN ancestry THEN ancestry[level]
                             ELSE IF fill THEN last_code(level) ELSE NULL
                        ELSE NULL]
        \* merge(name_df, on=level_col, how="left")
        named == [level \in 1..max_level |->
                    IF row_chain[level] = NULL THEN NaN
                    ELSE Str(<<row_chain[level], "_",
                               RecordOf(entries, row_chain[level])[NAME]>>)]
    IN  [level |-> IF fill THEN ffill(row_chain, NULL) ELSE row_chain,
         name |-> IF fill THEN ffill(named, NaN) ELSE named]

\* the columns level1.. and <meta_name>J-kaisou1.. of the table, and its rows
HierarchyFrame(meta_name, rows, max_level) ==
    LET level_col(l) == <<"level", DigitOf(l)>>
        name_col(l) == <<meta_name, JA_kaisou, DigitOf(l)>>
    IN  [cols |-> [l \in 1..max_level |-> level_col(l)]
                   \o [l \in 1..max_level |-> name_col(l)],
         rows |-> [r \in DOMAIN rows |->
                    [n \in {level_col(l) : l \in 1..max_level}
                            \cup {name_col(l) : l \in 1..max_level} |->
                        IF n[1] = "level" THEN rows[r].level[DigitVal(n[2])]
                        ELSE rows[r].name[DigitVal(n[3])]]]]

\* NoResult is the None the method returns after a warning or a caught exception;
\* ffill_ok tells whether the installed pandas still accepts fillna(method=...)
_create_hierarchy_dataframe(metainfo, cat_key, use_fillna_lv_hierarchy, ffill_ok) ==
    LET class_obj_list ==
            Get(Get(Get(Get(metainfo, "GET_META_INFO", EmptyObj), "METADATA_INF", EmptyObj),
                    "CLASS_INF", EmptyObj), "CLASS_OBJ", Other)
        cat_meta == class_obj_list.v[cat_key + 1]
        class_data == Get(cat_meta, "CLASS", None)
        entries == ClassEntries(class_data)
        levels == {level_to_numeric(Get(entries[i], LEVEL, "")).n :
                     i \in {i \in DOMAIN entries :
                               level_to_numeric(Get(entries[i], LEVEL, "")).k = "num"}}
        leaves == SelectSeq(entries, LAMBDA e : e[CODE] \notin parent_codes(entries))
    IN  IF class_obj_list.t # "list" \/ cat_key >= Len(class_obj_list.v) THEN NoResult
        ELSE IF "@name" \notin DOMAIN cat_meta THEN NoResult
        ELSE IF ~Truthy(class_data) \/ class_data.t \notin {"list", "dict"} THEN NoResult
        ELSE IF \A i \in DOMAIN entries : LEVEL \notin DOMAIN entries[i] THEN NoResult
        \* max_level is NA, or a leaf's level is: the comparison raises, None is returned
        ELSE IF levels = {} THEN NoResult
        ELSE IF \E i \in DOMAIN leaves : level_to_numeric(leaves[i][LEVEL]).k # "num"
             THEN NoResult
        ELSE IF leaves = <<>> THEN NoResult
        ELSE IF use_fillna_lv_hierarchy /\ ~ffill_ok THEN NoResult
        ELSE HierarchyFrame(cat_meta["@name"],
                            [r \in DOMAIN leaves |->
                                ChainRow(entries, leaves[r], Max(levels),
                                         use_fillna_lv_hierarchy)],
                            Max(levels))

HCodes == <<"A", "B", "C", "D">>
HNames == <<"a", "b", "c", "d">>
HLevels == {"1", "2", "3", ""}
Dangling == "Z"

\* bare: a record without a parent carries no @parentCode key instead of an empty one
HEntry(i, level, parent, bare) ==
    (CODE :> HCodes[i]) @@ (NAME :> HNames[i]) @@ (LEVEL :> level)
    @@ (IF parent = "" /\ bare THEN <<>> ELSE (PARENT :> parent))

\* the values of @parentCode of entry i: empty, a code of no entry, or the code
\* of an entry of a smaller level (the links of a classification form a tree)
HParents(levels, i) ==
    {"", Dangling}
    \cup {HCodes[j] : j \in {j \in DOMAIN levels :
                                /\ IsDigit(levels[j]) /\ IsDigit(levels[i])
                                /\ DigitVal(levels[j]) < DigitVal(levels[i])}}

ClassSet(levels, ps, bare) == [i \in DOMAIN levels |-> HEntry(i, levels[i], ps[i], bare)]

HierInput(class_obj, cat_key, fill) ==
    [metainfo |-> MetaEnvelope(class_obj), cat_key |-> cat_key,
     use_fillna_lv_hierarchy |-> fill]

HierInit ==
    /\ ProtoIdle
    /\ PipeOff
    /\ NameOff
    /\ KeyOff
    /\ ParamOff
    /\ AttrOff
    /\ WalkOff
    /\ FetchOff
    /\ h_out = NoResult
    /\ \/ \E n \in 1..MaxEntries, bare \in BOOLEAN, fill \in BOOLEAN :
            \E levels \in [1..n -> HLevels] :
                \E ps \in [1..n -> {"", Dangling} \cup Range(HCodes)] :
                    /\ \A i \in 1..n : ps[i] \in HParents(levels, i)
                    /\ \E class \in {List(ClassSet(levels, ps, bare)),
                                      Dict(ClassSet(levels, ps, bare)[1])} :
                        h_in = HierInput(List(<<ClassObj(<<"cat", "01">>, NameCat, class)>>),
                                         0, fill)
       \/ \E class \in {List(<<>>), Other} :
            h_in = HierInput(List(<<ClassObj(<<"cat", "01">>, NameCat, class)>>), 0, TRUE)
       \/ h_in = HierInput(List(<<CatFull>>), 1, TRUE)
       \/ h_in = HierInput(Other, 0, TRUE)

\* hierarchy_df = self._create_hierarchy_dataframe(json_data, i)
BuildHierarchy ==
    /\ h_in # NoResult
    /\ h_out = NoResult
    /\ \E ffill_ok \in BOOLEAN :
        h_out' = [ret |-> _create_hierarchy_dataframe(h_in.metainfo, h_in.cat_key,
                                                      h_in.use_fillna_lv_hierarchy, ffill_ok)]
    /\ UNCHANGED <<protoVars, pipeVars, n_hist, h_in, k_in, k_env, k_out, q_cfg, q_out, a_in, a_out, w_in, w_st, g_st>>

HierNext == BuildHierarchy

HierSpec == HierInit /\ [][HierNext]_vars

-----------------------------------------------------------------------------
(* KeySpec: the construction of a reader, _eStatReader.__init__ *)

\* the list env_vars of _get_api_key_from_env
env_vars ==
    << "E_STAT_APPLICATION_ID", "ESTAT_APPLICATION_ID", "E_STAT_APP_ID", "ESTAT_APP_ID",
       "E_STAT_APPID", "ESTAT_APPID", "E_STAT_API_KEY", "ESTAT_API_KEY" >>

\* the list env_files of _get_api_key_from_env
env_files == <<".estat_env", ".env_estat", ".env">>

\* a key is [from, var]: where it was written and under which name
NoKey == [from |-> "None", var |-> ""]
EmptyKey == [from |-> "", var |-> ""]
KeyOf(from, var) == [from |-> from, var |-> var]

\* a file that does not exist, and one that assigns the given variables
NoFile == [exists |-> FALSE, assigns |-> EmptyObj]
File(assigns) == [exists |-> TRUE, assigns |-> assigns]

\* a variant of load_dotenv that overrides the variables already set
load_dotenv_override(environ, file) == file.assigns @@ environ

\* load_dotenv(path): the variables of the file that the environment has not
\* already are added to it (override is False by default)
load_dotenv(environ, file) == environ @@ file.assigns

\* for var_name in env_vars: api_key = os.getenv(var_name); if api_key: return
RECURSIVE getenv_first(_, _)
getenv_first(environ, i) ==
    IF i > Len(env_vars) THEN NoKey
    ELSE IF env_vars[i] \in DOMAIN environ /\ environ[env_vars[i]] # EmptyKey
         THEN environ[env_vars[i]]
         ELSE getenv_first(environ, i + 1)

\* the loop over env_files from file i on, then the fallback
RECURSIVE TryFiles(_, _, _)
TryFiles(environ, files, i) ==
    IF i > Len(env_files) THEN [key |-> getenv_first(environ, 1), environ |-> environ]
    ELSE IF files[env_files[i]].exists
         THEN LET loaded == load_dotenv(environ, files[env_files[i]])
              IN  IF getenv_first(loaded, 1) # NoKey
                  THEN [key |-> getenv_first(loaded, 1), environ |-> loaded]
                  ELSE TryFiles(loaded, files, i + 1)
         ELSE TryFiles(environ, files, i + 1)

\* returns the key, or NoKey, and the environment as the loads left it
_get_api_key_from_env(dotenv_path, environ, files, DOTENV_AVAILABLE) ==
    LET loaded == IF DOTENV_AVAILABLE /\ dotenv_path # "" /\ files[dotenv_path].exists
                  THEN load_dotenv(environ, files[dotenv_path]) ELSE environ
    IN  IF DOTENV_AVAILABLE /\ dotenv_path = "" THEN TryFiles(environ, files, 1)
        ELSE [key |-> getenv_first(loaded, 1), environ |-> loaded]

\* _eStatReader.__init__: self.api_key, or the ValueError, and the environment
eStatReader_init(in, environ) ==
    LET found == IF in.api_key = NoKey
                 THEN _get_api_key_from_env(in.dotenv_path, environ, in.files, in.available)
                 ELSE [key |-> in.api_key, environ |-> environ]
    IN  [out |-> IF found.key \in {NoKey, EmptyKey}
                 THEN [api_key |-> NoKey, exc |-> "ValueError"]
                 ELSE [api_key |-> found.key, exc |-> "none"],
         environ |-> found.environ]

\* the variables the environment and the files of the inputs assign
EnvNames == {"E_STAT_APPLICATION_ID", "ESTAT_APPLICATION_ID", "ESTAT_API_KEY"}
CustomPath == "custom.env"

\* the contents of file f: none, or one variable assigned in it
FileChoices(f) ==
    {NoFile} \cup {File(v :> KeyOf(f, v)) :
                     v \in IF f = ".env_estat" THEN {"ESTAT_APPLICATION_ID"}
                           ELSE {"E_STAT_APPLICATION_ID", "ESTAT_API_KEY"}}

KeyInit ==
    /\ ProtoIdle
    /\ PipeOff
    /\ NameOff
    /\ HierOff
    /\ ParamOff
    /\ AttrOff
    /\ WalkOff
    /\ FetchOff
    /\ k_out = NoResult
    /\ \E set \in SUBSET EnvNames :
        \E environ \in [set -> {"env", ""}] :
            k_env = [v \in set |-> KeyOf(environ[v], IF environ[v] = "" THEN "" ELSE v)]
    /\ \E api_key \in {NoKey, EmptyKey, KeyOf("arg", "")}, dotenv_path \in {"", CustomPath},
          available \in BOOLEAN :
        \E files \in [{CustomPath} \cup Range(env_files) -> UNION {FileChoices(f) : f \in {CustomPath} \cup Range(env_files)}] :
            /\ \A f \in DOMAIN files : files[f] \in FileChoices(f)
            /\ k_in = [api_key |-> api_key, dotenv_path |-> dotenv_path,
                       available |-> available, files |-> files, environ |-> k_env]

\* reader = StatsListReader(api_key=..., dotenv_path=...)
Construct ==
    /\ k_in # NoResult
    /\ k_out = NoResult
    /\ LET r == eStatReader_init(k_in, k_env)
       IN  k_out' = r.out /\ k_env' = r.environ
    /\ UNCHANGED <<protoVars, pipeVars, n_hist, h_in, h_out, k_in, q_cfg, q_out, a_in, a_out, w_in, w_st, g_st>>

KeyNext == Construct

KeySpec == KeyInit /\ [][KeyNext]_vars

-----------------------------------------------------------------------------
(* ParamSpec: the params property of the four readers *)

\* Python values of the configuration: None, a str, an int, a bool, a float
\* (n2 is twice the number, so that 1.0 and 1.5 both fit), a list
PNone == [ty |-> "None", s |-> "", n |-> 0]
PStr(s) == [ty |-> "str", s |-> s, n |-> 0]
PInt(n) == [ty |-> "int", s |-> "", n |-> n]
PBool(b) == [ty |-> "bool", s |-> "", n |-> IF b THEN 1 ELSE 0]
PFloat(n2) == [ty |-> "float", s |-> "", n |-> n2]
PList == [ty |-> "list", s |-> "", n |-> 0]

\* x == k for an integer k: True is 1, False is 0, 1.0 is 1
EqInt(x, k) ==
    \/ x.ty \in {"int", "bool"} /\ x.n = k
    \/ x.ty = "float" /\ x.n = 2 * k

\* the validators of the mappings, by name
validator(name, x) ==
    CASE name = "str_or_int" -> x.ty \in {"str", "int", "bool"}
      [] name = "str" -> x.ty = "str"
      [] name = "in_1_2" -> \E k \in {1, 2} : EqInt(x, k)
      [] name = "range_1_4" -> \E k \in 1..3 : EqInt(x, k)
      [] name = "range_4" -> \E k \in 0..3 : EqInt(x, k)
      [] name = "Y_N" -> x.ty = "str" /\ x.s \in {"Y", "N"}
      [] name = "Y" -> x.ty = "str" /\ x.s = "Y"
      [] name = "dataType" ->
            x.ty = "str" /\ x.s \in {"XLS", "CSV", "PDF", "XML", "XLS_REP", "DB"}

filter_params ==
    << "lvTab", "cdTab", "cdTabFrom", "cdTabTo", "lvTime", "cdTime", "cdTimeFrom",
       "cdTimeTo", "lvArea", "cdArea", "cdAreaFrom", "cdAreaTo", "lvCat01", "cdCat01",
       "cdCat01From", "cdCat01To", "lvCat02", "cdCat02", "cdCat02From", "cdCat02To",
       "lvCat03", "cdCat03", "cdCat03From", "cdCat03To" >>

\* the (name, validator) pairs of each params, in the order of the source
param_mappings(kind) ==
    CASE kind = "StatsList" ->
            << <<"surveyYears", "str_or_int">>, <<"openYears", "str_or_int">>,
               <<"statsField", "str_or_int">>, <<"statsCode", "str_or_int">>,
               <<"searchWord", "str">>, <<"searchKind", "in_1_2">>,
               <<"collectArea", "range_1_4">>, <<"explanationGetFlg", "Y_N">>,
               <<"statsNameList", "Y">>, <<"startPosition", "str_or_int">>,
               <<"limit", "str_or_int">>, <<"updatedDate", "str_or_int">> >>
      [] kind = "MetaInfo" ->
            << <<"statsDataId", "str_or_int">>, <<"explanationGetFlg", "Y_N">> >>
      [] kind = "StatsData" ->
            << <<"statsDataId", "str_or_int">> >>
            \o [i \in DOMAIN filter_params |-> <<filter_params[i], "str_or_int">>]
            \o << <<"startPosition", "str_or_int">>, <<"limit", "str_or_int">>,
                  <<"metaGetFlg", "Y_N">>, <<"cntGetFlg", "Y_N">>,
                  <<"explanationGetFlg", "Y_N">>, <<"annotationGetFlg", "Y_N">>,
                  <<"replaceSpChar", "range_4">> >>
      [] kind = "DataCatalog" ->
            << <<"surveyYears", "str_or_int">>, <<"openYears", "str_or_int">>,
               <<"statsField", "str_or_int">>, <<"statsCode", "str_or_int">>,
               <<"searchWord", "str">>, <<"collectArea", "range_1_4">>,
               <<"explanationGetFlg", "Y_N">>, <<"dataType", "dataType">>,
               <<"startPosition", "str_or_int">>, <<"catalogId", "str_or_int">>,
               <<"resourceId", "str_or_int">>, <<"updatedDate", "str_or_int">> >>

\* the attributes of a reader that are no parameter of its request
OtherAttrs(kind) ==
    CASE kind = "DataCatalog" -> {"limit"}
      [] kind \in {"StatsList", "MetaInfo"} -> {"lang"}
      [] OTHER -> {"name_or_id"}

\* a variant of Accepts without the validator
Accepts_notNone(name, x) == x # PNone

\* if param_value is not None and validator(param_value)
Accepts(name, x) == x # PNone /\ validator(name, x)

\* the loop over the mappings from entry i on
RECURSIVE AddParams(_, _, _, _)
AddParams(pdict, mappings, fields, i) ==
    IF i > Len(mappings) THEN pdict
    ELSE LET param_name == mappings[i][1]
         IN  AddParams(IF Accepts(mappings[i][2], fields[param_name])
                       THEN (param_name :> fields[param_name]) @@ pdict ELSE pdict,
                       mappings, fields, i + 1)

params(cfg) ==
    AddParams("appId" :> PStr(cfg.api_key), param_mappings(cfg.kind), cfg.fields, 1)

ParamValues ==
    {PNone, PStr("Y"), PStr("N"), PStr("Z"), PStr("CSV"), PStr("0003"), PInt(0), PInt(1),
     PInt(3), PInt(4), PInt(100000), PBool(TRUE), PBool(FALSE), PFloat(2), PFloat(3), PList}

ParamNames(kind) ==
    {param_mappings(kind)[i][1] : i \in DOMAIN param_mappings(kind)} \cup OtherAttrs(kind)

\* the attributes as the constructor's defaults leave them, and a configuration
\* in which every parameter has a value of its kind
ParamDefaults(kind) ==
    [f \in ParamNames(kind) |->
        CASE f = "limit" /\ kind \in {"StatsData", "DataCatalog"} -> PInt(100000)
          [] f = "replaceSpChar" -> PInt(2)
          [] f = "name_or_id" -> PStr("name")
          [] OTHER -> PNone]

ParamFull(kind) ==
    LET m == param_mappings(kind)
    IN  [f \in ParamNames(kind) |->
            IF f \in OtherAttrs(kind) THEN PStr("J")
            ELSE LET v == m[CHOOSE i \in DOMAIN m : m[i][1] = f][2]
                 IN  CASE v = "str_or_int" -> PStr("0003")
                       [] v = "str" -> PStr("Z")
                       [] v \in {"Y_N", "Y"} -> PStr("Y")
                       [] v = "dataType" -> PStr("CSV")
                       [] OTHER -> PInt(1)]

ParamInit ==
    /\ ProtoIdle
    /\ PipeOff
    /\ NameOff
    /\ HierOff
    /\ KeyOff
    /\ AttrOff
    /\ WalkOff
    /\ FetchOff
    /\ q_out = <<>>
    /\ \E kind \in Kinds :
        \E base \in {ParamDefaults(kind), ParamFull(kind)}, f \in ParamNames(kind),
           v \in ParamValues :
            q_cfg = [kind |-> kind, api_key |-> "KEY", fields |-> [base EXCEPT ![f] = v]]

\* p = reader.params
EvalParams ==
    /\ q_cfg # NoResult
    /\ Len(q_out) < 2
    /\ q_out' = Append(q_out, params(q_cfg))
    /\ UNCHANGED <<protoVars, pipeVars, n_hist, h_in, h_out, k_in, k_env, k_out, q_cfg, a_in, a_out, w_in, w_st, g_st>>

ParamNext == EvalParams

ParamSpec == ParamInit /\ [][ParamNext]_vars

-----------------------------------------------------------------------------
(* AttrSpec: the metadata a reader stores from one response, any part of which
   may be absent *)

\* the mapping with the key when it is present, the empty mapping otherwise
Opt(present, key, value) == IF present THEN key :> value ELSE EmptyObj

ResultParts ==
    {EmptyObj, "STATUS" :> "0", "STATUS" :> "0" @@ "ERROR_MSG" :> "ok"}

\* TITLE and GOV_ORG as the API sends them: a string or a mapping, with or without "$"
Forms == {"str", "dict", "dict without $"}
Formed(form, text) ==
    CASE form = "str" -> JStr(text)
      [] form = "dict" -> Dict("$" :> text)
      [] OTHER -> Dict("@no" :> "001")

\* the key of the part of the envelope that holds the list information or TABLE_INF
BodyKey(kind) ==
    CASE kind = "StatsList" -> "DATALIST_INF"
      [] kind = "DataCatalog" -> "DATA_CATALOG_LIST_INF"
      [] kind = "StatsData" -> "STATISTICAL_DATA"
      [] OTHER -> "METADATA_INF"

IsList(kind) == kind \in {"StatsList", "DataCatalog"}

AttrInit ==
    /\ ProtoIdle
    /\ PipeOff
    /\ NameOff
    /\ HierOff
    /\ KeyOff
    /\ ParamOff
    /\ WalkOff
    /\ FetchOff
    /\ a_out = NoResult
    /\ \E kind \in Kinds, hasTop, hasResult, hasParameter, hasBody, hasInner \in BOOLEAN,
          res \in ResultParts, present \in SUBSET {"NUMBER", "NEXT_KEY", "STATISTICS_NAME",
                                                  "CYCLE", "TITLE", "GOV_ORG"},
          title_form \in Forms, gov_form \in Forms :
        LET has(key) == key \in present
            result_inf == Opt(has("NEXT_KEY"), "NEXT_KEY", "101")
            table_inf ==
                Opt(has("STATISTICS_NAME"), "STATISTICS_NAME", "Population")
                    @@ Opt(has("CYCLE"), "CYCLE", "-")
                    @@ Opt(has("TITLE") /\ kind = "StatsData", "TITLE", Formed(title_form, "Census"))
                    @@ Opt(has("GOV_ORG") /\ kind = "StatsData", "GOV_ORG", Formed(gov_form, "MIC"))
            body == IF IsList(kind)
                    THEN Opt(has("NUMBER"), "NUMBER", "2")
                            @@ Opt(hasInner, "RESULT_INF", result_inf)
                    ELSE Opt(hasInner, "TABLE_INF", table_inf)
            envelope == Opt(hasResult, "RESULT", res)
                            @@ Opt(hasParameter, "PARAMETER", "LANG" :> "J")
                            @@ Opt(hasBody, BodyKey(kind), body)
        IN  a_in = [kind |-> kind, json |-> Opt(hasTop, TopKey(kind), envelope)]

\* self._store_stats_metadata(out) and its counterparts of the other readers
StoreMetadata ==
    /\ a_in # NoResult
    /\ a_out = NoResult
    /\ a_out' = [attrs |-> store_metadata(a_in.kind, a_in.json)]
    /\ UNCHANGED <<protoVars, pipeVars, n_hist, h_in, h_out, k_in, k_env, k_out, q_cfg, q_out, a_in, w_in, w_st, g_st>>

AttrNext == StoreMetadata

AttrSpec == AttrInit /\ [][AttrNext]_vars

-----------------------------------------------------------------------------
(* WalkSpec: the loop of _create_hierarchy_dataframe over the rows of a
   classification, and the ancestry walk of each leaf, one iteration at a time;
   the parent links are any, cycles included *)

WalkLevels == {"1", "2"}

WalkInit ==
    /\ ProtoIdle
    /\ PipeOff
    /\ NameOff
    /\ HierOff
    /\ KeyOff
    /\ ParamOff
    /\ AttrOff
    /\ FetchOff
    /\ \E n \in 1..MaxEntries :
        \E levels \in [1..n -> WalkLevels] :
            \E ps \in [1..n -> {"", Dangling} \cup {HCodes[j] : j \in 1..n}] :
                w_in = ClassSet(levels, ps, FALSE)
    /\ w_st = [pc |-> "rows", row |-> 1, cur |-> 0, chain |-> <<>>, steps |-> 0]

\* for _, row in meta_cls_df.iterrows(): a parent is skipped, the walk of a leaf begins
NextRow ==
    /\ w_st # NoResult /\ w_st.pc = "rows"
    /\ w_st' = IF w_st.row > Len(w_in) THEN [w_st EXCEPT !.pc = "done"]
               ELSE IF w_in[w_st.row][CODE] \in parent_codes(w_in)
                    THEN [w_st EXCEPT !.row = @ + 1]
               ELSE [w_st EXCEPT !.pc = "walk", !.cur = w_st.row, !.chain = <<>>, !.steps = 0]
    /\ UNCHANGED <<protoVars, pipeVars, n_hist, h_in, h_out, k_in, k_env, k_out, q_cfg, q_out,
                   a_in, a_out, w_in, g_st>>

\* one iteration of while current_record is not None; an iteration past the
\* number of entries is not followed further
WalkStep ==
    /\ w_st # NoResult /\ w_st.pc = "walk"
    /\ w_st.steps <= Len(w_in)
    /\ LET current_record == w_in[w_st.cur]
           chain == (level_to_numeric(current_record[LEVEL]).n :> current_record[CODE])
                        @@ w_st.chain
           parent_code == parentCode(current_record)
           found == {j \in DOMAIN w_in : w_in[j][CODE] = parent_code}
       IN  w_st' = IF parent_code = "" \/ found = {}
                   THEN [w_st EXCEPT !.pc = "rows", !.row = @ + 1, !.chain = chain,
                                     !.steps = @ + 1]
                   ELSE [w_st EXCEPT !.cur = CHOOSE j \in found : TRUE, !.chain = chain,
                                     !.steps = @ + 1]
    /\ UNCHANGED <<protoVars, pipeVars, n_hist, h_in, h_out, k_in, k_env, k_out, q_cfg, q_out,
                   a_in, a_out, w_in, g_st>>

WalkNext == NextRow \/ WalkStep

WalkSpec == WalkInit /\ [][WalkNext]_vars

-----------------------------------------------------------------------------
(* FetchSpec: the attempts of one _get_response, each response with its status,
   its text and the encoding its headers declare *)

\* response.text; "" is a response without a body
Bodies == {"", "busy", "down"}

\* response.encoding: the declared charset, or None when the headers declare none
Encodings == {NoneAttr, "utf-8"}

HttpResponses == [ok : BOOLEAN, text : Bodies, encoding : Encodings]

\* last_response_text = "" before the loop
NoText == [t |-> "str", v |-> ""]

\* response.text.encode(response.encoding): the bytes of the text
encode(response) == [t |-> "bytes", v |-> response.text]

\* if response.encoding: last_response_text = response.text.encode(response.encoding)
RecordText(last_response_text, response) ==
    IF response.encoding # NoneAttr THEN encode(response) ELSE last_response_text

\* msg = f"Unable to read URL: {url}", and the response text when it is not empty
Message(last_response_text) ==
    [url |-> "url",
     response_text |-> IF last_response_text.v # "" THEN last_response_text ELSE NoResult]

FetchInit ==
    /\ ProtoIdle
    /\ PipeOff
    /\ NameOff
    /\ HierOff
    /\ KeyOff
    /\ ParamOff
    /\ AttrOff
    /\ WalkOff
    /\ \E n \in 0..MaxRetry :
        g_st = [pc |-> "loop", retry_count |-> n, received |-> <<>>,
                last_response_text |-> NoText, msg |-> NoResult]

\* one pass of for _ in range(self.retry_count + 1): an OK response is returned,
\* any other is recorded and, _output_error being False, the loop goes on after
\* the pause
GetResponse ==
    /\ g_st # NoResult /\ g_st.pc = "loop"
    /\ Len(g_st.received) < g_st.retry_count + 1
    /\ \E response \in HttpResponses :
        g_st' = IF response.ok
                THEN [g_st EXCEPT !.pc = "returned", !.received = Append(@, response)]
                ELSE [g_st EXCEPT !.received = Append(@, response),
                                  !.last_response_text = RecordText(@, response)]
    /\ UNCHANGED <<protoVars, pipeVars, n_hist, h_in, h_out, k_in, k_env, k_out, q_cfg, q_out,
                   a_in, a_out, w_in, w_st>>

\* the loop is exhausted: raise RemoteDataError(msg)
RaiseRemoteDataError ==
    /\ g_st # NoResult /\ g_st.pc = "loop"
    /\ Len(g_st.received) = g_st.retry_count + 1
    /\ g_st' = [g_st EXCEPT !.pc = "raised", !.msg = Message(g_st.last_response_text)]
    /\ UNCHANGED <<protoVars, pipeVars, n_hist, h_in, h_out, k_in, k_env, k_out, q_cfg, q_out,
                   a_in, a_out, w_in, w_st>>

FetchNext == GetResponse \/ RaiseRemoteDataError

FetchSpec == FetchInit /\ [][FetchNext]_vars

-----------------------------------------------------------------------------
(* Properties of Spec *)

Done == pc = "done"
Ended(i) == calls[i].ended # "running"
IsRead == reader.kind = "StatsData" /\ op.name = "read" /\ pc # "idle"
ApiErrorAttrs == [STATUS |-> "100", ERROR_MSG |-> "not found"]

\* the total a response reports, -1 when it reports none
TotalOf(out) ==
    LET table_inf == Get(StatData(out), "TABLE_INF", EmptyObj)
    IN  IF "OVERALL_TOTAL_NUMBER" \in DOMAIN table_inf
        THEN table_inf["OVERALL_TOTAL_NUMBER"] ELSE -1

\* C1: when a public read call (read, read_json, read_class_obj_dfs) has
\* returned or raised, the session of the reader is closed.
C1_SessionClosedAfterCall == Done => session = "closed"

\* C3 as stated: a RemoteDataError raised by _get_response anywhere in a public
\* call (single fetch, probe, partition fetch) is the outcome of that call.
C3_RemoteDataErrorAlwaysSurfaces ==
    Done /\ (\E i \in DOMAIN calls : calls[i].ended = "RemoteDataError")
        => outcome = "RemoteDataError"

\* C3 amended: a RemoteDataError of the single fetch or of the probe is the
\* outcome of the call and ends it; a RemoteDataError of a partition fetch is
\* caught: no table is kept for that partition, every partition of the plan is
\* still requested and the call returns.
C3_RemoteDataErrorSurfacesOutsideSplit ==
    Done =>
        \A i \in DOMAIN calls :
            calls[i].ended = "RemoteDataError" =>
                IF calls[i].phase # "partition"
                THEN outcome = "RemoteDataError" /\ i = Len(calls)
                ELSE /\ outcome = "returned"
                     /\ calls[i].table = NoResult
                     /\ Len(calls) = 1 + Len(plan.combos)
                     /\ Len(dfs) < Len(plan.combos)

C3_Witness ==
    /\ Done
    /\ outcome = "returned"
    /\ Len(calls) = 3
    /\ calls[2].ended = "RemoteDataError"
    /\ calls[3].ended = "returned"
    /\ Len(dfs) = 1

\* the attempts of one _get_response: at most retry_count + 1, an OK status
\* only as the last one, none left to make once it has ended
AttemptsInOrder(c) ==
    /\ Len(c.statuses) <= reader.retry_count + 1
    /\ \A j \in DOMAIN c.statuses : c.statuses[j] = "ok" => j = Len(c.statuses)
    /\ c.ended = "returned" <=> (c.statuses # <<>> /\ c.statuses[Len(c.statuses)] = "ok")
    /\ c.ended = "running" => Len(c.statuses) < reader.retry_count + 1

\* C4 as stated: every _get_response makes at most retry_count + 1 attempts,
\* returns at the first OK status, and has raised RemoteDataError exactly when
\* it has ended with no attempt returning an OK status.
C4_RaisesExactlyWhenNoAttemptOk ==
    \A i \in DOMAIN calls :
        /\ AttemptsInOrder(calls[i])
        /\ Ended(i) =>
            (calls[i].ended = "RemoteDataError"
                <=> \A j \in DOMAIN calls[i].statuses : calls[i].statuses[j] # "ok")

\* C4 amended: every _get_response makes at most retry_count + 1 attempts and
\* returns at the first OK status; it has raised RemoteDataError exactly when
\* retry_count + 1 attempts each returned a status that is not OK; an attempt
\* in which session.get itself raised ends the call with that exception, with
\* no further attempt.
C4_RaisesExactlyWhenAllAttemptsNotOk ==
    \A i \in DOMAIN calls :
        /\ AttemptsInOrder(calls[i])
        /\ calls[i].ended = "RemoteDataError"
            <=> /\ Len(calls[i].statuses) = reader.retry_count + 1
                /\ \A j \in DOMAIN calls[i].statuses : calls[i].statuses[j] = "notok"
        /\ calls[i].ended = "ConnectionError"
            <=> /\ calls[i].statuses # <<>>
                /\ calls[i].statuses[Len(calls[i].statuses)] = "raised"
        /\ \A j \in DOMAIN calls[i].statuses :
            calls[i].statuses[j] = "raised" => j = Len(calls[i].statuses)

C4_Witness ==
    /\ reader.retry_count = 1
    /\ Len(calls) = 2
    /\ calls[1].statuses = <<"notok", "ok">>
    /\ calls[2].statuses = <<"notok", "notok">>
    /\ calls[2].ended = "RemoteDataError"

\* C5: when the only answer of a read() is the API's own error envelope (RESULT
\* alone, STATUS 100), read() returns and the attributes hold that STATUS and
\* ERROR_MSG.
C5_ApiErrorRecordedAndReturned ==
    Done /\ op.name = "read" /\ Len(calls) = 1 /\ calls[1].resp = ApiError(reader.kind)
        => /\ outcome = "returned"
           /\ [STATUS |-> attrs.STATUS, ERROR_MSG |-> attrs.ERROR_MSG] = ApiErrorAttrs

\* C6: with a limit that is not None, StatsDataReader.read makes one request,
\* the data request with the reader's own parameters and never a probe, and
\* what it returns is built from that one answer, whatever total it reports.
C6_LimitGivenOneRequestNoProbe ==
    IsRead /\ ~reader.limit.none =>
        /\ Len(calls) = 1
        /\ calls[1].phase = "single"
        /\ calls[1].params = Params(reader.limit, <<>>)
        /\ outcome = "returned" => result = ReadResult(calls[1].table, opCfg)

C6_Witness ==
    /\ IsRead /\ Done
    /\ reader.limit = Limit(PageCap)
    /\ outcome = "returned"
    /\ TotalOf(calls[1].resp) > PageCap
    /\ op.normal
    /\ Len(result.rows) = 1

\* C7: with limit None, the first request of StatsDataReader.read is the
\* probe, with limit=1, and it is the only probe; when the probe reports a
\* total of at most 100000 exactly one more request follows, the normal fetch
\* with the reader's own parameters, and the call ends with it; when it reports
\* more, every later request is a request of the split.
C7_ProbeFirstThenFetchOrSplit ==
    IsRead /\ reader.limit.none =>
        /\ calls[1].phase = "probe"
        /\ calls[1].params = Params(Limit(1), <<>>)
        /\ \A i \in 2..Len(calls) : calls[i].phase # "probe"
        /\ calls[1].ended # "returned" => Len(calls) = 1
        /\ calls[1].ended = "returned" /\ TotalOf(calls[1].resp) >= 0 =>
            IF TotalOf(calls[1].resp) <= PageCap
            THEN /\ Len(calls) = 2
                 /\ calls[2].phase = "single"
                 /\ calls[2].params = Params(NoLimit, <<>>)
                 /\ Ended(2) <=> Done
            ELSE \A i \in 2..Len(calls) : calls[i].phase = "partition"

C7_Witness ==
    /\ IsRead /\ Done
    /\ reader.limit.none
    /\ TotalOf(calls[1].resp) = PageCap
    /\ Len(calls) = 2
    /\ calls[2].phase = "single"
    /\ outcome = "returned"

\* the requests of the split, and whether each gave a table
PartitionCalls == SelectSeq(calls, LAMBDA c : c.phase = "partition")
NoFetchFailed ==
    /\ Len(PartitionCalls) = Len(plan.combos)
    /\ \A i \in DOMAIN PartitionCalls :
        /\ PartitionCalls[i].ended = "returned"
        /\ ~IsErr(PartitionCalls[i].table)
        /\ PartitionCalls[i].table # NoResult

\* C8: when a partitioned read in which no fetch failed returns, the rows of
\* the table it returns are the rows of the tables of its requests, in request
\* order and within a request in the order of the answer, so that the row
\* count is the sum of the row counts.
C8_RowsInRequestOrder ==
    IsRead /\ Done /\ outcome = "returned" /\ Len(plan.combos) > 0 /\ NoFetchFailed
    /\ op.normal
        => /\ result.rows = Flatten([i \in DOMAIN PartitionCalls |->
                                        PartitionCalls[i].table.rows])
           /\ Len(result.rows) = SeqSum([i \in DOMAIN PartitionCalls |->
                                            Len(PartitionCalls[i].table.rows)])

C8_Witness ==
    /\ IsRead /\ Done /\ outcome = "returned" /\ op.normal /\ NoFetchFailed
    /\ Len(plan.combos) = 3
    /\ Len(PartitionCalls[1].table.rows) = 2
    /\ Len(PartitionCalls[2].table.rows) = 1
    /\ Len(PartitionCalls[3].table.rows) = 2
    /\ Len(result.rows) = 5

MetaRead == Done /\ reader.kind = "MetaInfo" /\ op.name = "read" /\ outcome = "returned"

\* the classification tables built from the response, and the rows of each
Built == read_class_obj_dfs(cur.resp)
NonTime == {i \in DOMAIN Built : Built[i].id # <<"time">>}
RowsOf(i) == Len(Built[i].meta_dataframe.rows)

\* C16: MetaInfoReader.read returns the table of the first classification, in
\* response order, that has the most rows among those whose id is not time,
\* whatever the rows of the time classification, and an empty table when no
\* classification other than time was built
C16_LargestNonTimeTable ==
    MetaRead =>
        IF NonTime = {} THEN result = EmptyDF
        ELSE \E i \in NonTime :
                /\ result = Built[i].meta_dataframe
                /\ \A j \in NonTime : RowsOf(j) <= RowsOf(i) /\ (j < i => RowsOf(j) < RowsOf(i))

C16_Witness ==
    /\ MetaRead
    /\ cur.resp = MetaEnvelope(List(<<TabFull, CatFull, TimeFull>>))
    /\ Len(Built) = 3
    /\ RowsOf(1) = 2 /\ RowsOf(2) = 2 /\ RowsOf(3) = 3
    /\ result = Built[1].meta_dataframe
    /\ result # Built[2].meta_dataframe

\* the response carries no list of observation records
LacksRecords(out) == "VALUE" \notin DOMAIN Get(StatData(out), "DATA_INF", EmptyObj)
Answered(i) == calls[i].ended = "returned"

\* C17 as stated: a read that received a response without STATISTICAL_DATA,
\* DATA_INF or VALUE ends with a KeyError raised to the caller
C17_KeyErrorWhenRecordsAbsent ==
    IsRead /\ Done =>
        \A i \in DOMAIN calls : Answered(i) /\ LacksRecords(calls[i].resp) => outcome = "KeyError"

\* C17 as amended: the KeyError reaches the caller when the response read builds
\* its table from (the answer to its one data request) lacks them, and when the
\* answer to the probe lacks STATISTICAL_DATA; an answer to a partition request
\* of the classification split that lacks them is skipped, and read returns
C17_KeyErrorOutsideSplit ==
    IsRead /\ Done =>
        \A i \in DOMAIN calls :
            Answered(i) /\ LacksRecords(calls[i].resp) =>
                CASE calls[i].phase = "single" -> outcome = "KeyError"
                  [] calls[i].phase = "probe" ->
                        StatData(calls[i].resp) = EmptyObj => outcome = "KeyError"
                  [] OTHER -> outcome = "returned"

C17_Witness ==
    /\ IsRead /\ Done
    /\ Len(calls) = 2
    /\ calls[1].phase = "probe"
    /\ cur.phase = "single" /\ Answered(2) /\ cur.resp = NoValue
    /\ outcome = "KeyError"
    /\ result = NoResult

\* the classification dimensions of the probe's answer, by position, and the
\* codes of each
SampleClasses == Get(StatData(sample), "CLASS_INF", EmptyObj)["CLASS_OBJ"].v
CodesOf(n) ==
    LET class == SampleClasses[n]["CLASS"]
    IN  IF class.t = "list" THEN {class.v[e][<<"@", "code">>] : e \in DOMAIN class.v}
        ELSE {class.v[1][<<"@", "code">>]}

RECURSIVE SizeProduct(_)
SizeProduct(D) ==
    IF D = {} THEN 1
    ELSE LET n == CHOOSE n \in D : TRUE
         IN  Cardinality(CodesOf(n)) * SizeProduct(D \ {n})

\* D holds the largest dimensions, brings the estimate under the cap, and none
\* of its dimensions can be left out
Needed(D) ==
    /\ \A n \in D, m \in DOMAIN SampleClasses \ D :
            Cardinality(CodesOf(n)) >= Cardinality(CodesOf(m))
    /\ TotalOf(sample) \div SizeProduct(D) < PageCap
    /\ \A n \in D : TotalOf(sample) \div SizeProduct(D \ {n}) >= PageCap

\* the requests of the split are one for each choice of a code of every dimension of D
OnePerCombination(D) ==
    /\ Len(PartitionCalls) = SizeProduct(D)
    /\ \A f \in [D -> UNION {CodesOf(n) : n \in D}] :
            (\A n \in D : f[n] \in CodesOf(n)) =>
                \E i \in DOMAIN PartitionCalls :
                    LET cd == PartitionCalls[i].params.cd
                    IN  {cd[x] : x \in DOMAIN cd} = {f[n] : n \in D}

\* C20: when the classification dimensions of the probe's answer can bring the
\* estimate of rows per partition (the total divided by the product of the
\* sizes) under the cap of 100000, the split partitions on the largest
\* dimensions, as few as bring it under the cap, and issues exactly one request
\* for each combination of their codes.
C20_PartitionsOnLargestDimensions ==
    IsRead /\ Done /\ sample # EmptyObj
    /\ TotalOf(sample) \div SizeProduct(DOMAIN SampleClasses) < PageCap
        => \E D \in SUBSET DOMAIN SampleClasses : Needed(D) /\ OnePerCombination(D)

\* the requests of the split that gave a table
GoodCalls ==
    SelectSeq(PartitionCalls,
              LAMBDA c : c.ended = "returned" /\ c.table # NoResult /\ ~IsErr(c.table))
SplitOver == IsRead /\ Done /\ Len(plan.combos) > 0

\* C21: when the split has planned its combinations, every combination is
\* requested, in the order of the plan, whatever became of the requests before
\* it; no exception reaches the caller; the rows of the table returned are the
\* rows of the requests that gave a table, in request order, and the table is
\* empty when none did.
C21_FailedPartitionOnlyOmitted ==
    SplitOver =>
        /\ outcome = "returned"
        /\ Len(PartitionCalls) = Len(plan.combos)
        /\ \A i \in DOMAIN PartitionCalls : PartitionCalls[i].params = SplitParams(plan, i)
        /\ op.normal =>
            /\ ~IsErr(result)
            /\ result.rows = Flatten([i \in DOMAIN GoodCalls |-> GoodCalls[i].table.rows])
            /\ GoodCalls = <<>> => result = EmptyDF

\* of three partitions the first failed in the fetch and the second in the
\* processing; the third gave the rows returned
C21_Witness ==
    /\ SplitOver /\ op.normal /\ outcome = "returned"
    /\ Len(PartitionCalls) = 3
    /\ PartitionCalls[1].ended = "RemoteDataError"
    /\ IsErr(PartitionCalls[2].table)
    /\ Len(GoodCalls) = 1
    /\ result.rows = PartitionCalls[3].table.rows
    /\ Len(result.rows) > 0

\* the continuation token of a response, None when it carries none
NextKeyOf(out) ==
    IF IsErr(out) \/ out = NoResult THEN NoneAttr
    ELSE Get(Get(StatData(out), "RESULT_INF", EmptyObj), "NEXT_KEY", NoneAttr)

\* C22: when the probe reports a total above the cap and the read returns,
\* every request made after a response that carried a continuation token
\* starts at that token, and the last response carries no token (the reader
\* has no limit, so no maximum ends the paging before that).
C22_PagesByContinuationToken ==
    IsRead /\ Done /\ outcome = "returned" /\ reader.limit.none
    /\ TotalOf(calls[1].resp) > PageCap
        => /\ \A i \in 2..Len(calls) :
                NextKeyOf(calls[i - 1].resp) # NoneAttr
                    => calls[i].params.startPosition = NextKeyOf(calls[i - 1].resp)
           /\ NextKeyOf(calls[Len(calls)].resp) = NoneAttr

\* the class objects of a metadata response, and whether one can be built:
\* it has an id and a name and its CLASS is an entry or a list with entries
MetaClasses(out) ==
    LET class_obj == Get(Get(Get(Get(out, "GET_META_INFO", EmptyObj), "METADATA_INF", EmptyObj),
                             "CLASS_INF", EmptyObj), "CLASS_OBJ", List(<<>>))
    IN  IF class_obj.t = "list" THEN class_obj.v ELSE <<>>
Buildable(co) ==
    /\ "@id" \in DOMAIN co /\ "@name" \in DOMAIN co /\ "CLASS" \in DOMAIN co
    /\ \/ co["CLASS"].t = "dict"
       \/ co["CLASS"].t = "list" /\ co["CLASS"].v # <<>>
ClassObjDfsRead ==
    /\ Done /\ reader.kind = "MetaInfo" /\ op.name = "read_class_obj_dfs"
    /\ calls[Len(calls)].ended = "returned"

\* C26: read_class_obj_dfs raises nothing on a response it received, and
\* returns one table for each classification that has an id, a name and a CLASS
\* that is an entry or a list of entries, in response order, with one row for
\* each entry; the classifications that lack one of these give no table.
C26_BadClassificationsSkipped ==
    ClassObjDfsRead =>
        LET good == SelectSeq(MetaClasses(calls[Len(calls)].resp), Buildable)
        IN  /\ outcome = "returned"
            /\ Len(result) = Len(good)
            /\ \A i \in DOMAIN good :
                /\ result[i].id = good[i]["@id"]
                /\ result[i].name = good[i]["@name"]
                /\ Len(result[i].meta_dataframe.rows) = Len(ClassEntries(good[i]["CLASS"]))

\* of five classifications the first has no id, the third no name and the
\* fourth a CLASS that is neither; the second and the fifth are returned
C26_Witness ==
    /\ ClassObjDfsRead
    /\ Len(MetaClasses(calls[Len(calls)].resp)) = 5
    /\ ~Buildable(MetaClasses(calls[Len(calls)].resp)[1])
    /\ Len(result) = 2
    /\ result[1].id = <<"tab">> /\ result[2].id = <<"cat", "01">>

\* C30: when the probe reports a total above the cap and the read returns, the
\* split has issued at least one data request, whatever the classification
\* list of the probe's answer holds.
C30_SplitRequestsData ==
    IsRead /\ Done /\ outcome = "returned" /\ calls[1].phase = "probe"
    /\ TotalOf(calls[1].resp) > PageCap
        => PartitionCalls # <<>>

-----------------------------------------------------------------------------
(* Properties of PipeSpec *)

\* the marker characters the NOTE of the response declares
DeclaredMarkers ==
    LET note == Get(Get(StatData(p_out), "DATA_INF", EmptyObj), "NOTE", None)
    IN  {note.v[i]["@char"] : i \in DOMAIN note.v}

\* the numbers that the numeric strings of the inputs denote
Denotes ==
    (<<"1">> :> 1) @@ (<<"2">> :> 2) @@ (<<"1", "2">> :> 12) @@ (<<"-", "1">> :> -1)

MissingDone == p_stage = "merge" /\ p_cfg.na_values = NaN

\* C9: with the NaN sentinel, after missing-value handling a record whose raw
\* value is a declared marker has a null value, any other record whose raw
\* value is a numeric string has the number it denotes, and the rows, the
\* columns and the cells of every other column are as before.
C9_MarkersNullOthersParsed ==
    MissingDone =>
        /\ p_df.cols = p_pre.cols
        /\ Len(p_df.rows) = Len(p_pre.rows)
        /\ \A r \in DOMAIN p_pre.rows :
            LET raw == p_pre.rows[r][<<"$">>].s
            IN  /\ raw \in DeclaredMarkers => p_df.rows[r][<<"$">>] = NaN
                /\ raw \notin DeclaredMarkers /\ raw \in DOMAIN Denotes
                    => p_df.rows[r][<<"$">>] = Num(Denotes[raw])
                /\ \A c \in ColSet(p_pre) \ {<<"$">>} : p_df.rows[r][c] = p_pre.rows[r][c]

C9_Witness ==
    /\ MissingDone
    /\ DeclaredMarkers = {<<"-">>, <<"*">>}
    /\ Len(p_pre.rows) = 2
    /\ p_pre.rows[1][<<"$">>] = Str(<<"-">>)
    /\ p_pre.rows[2][<<"$">>] = Str(<<"-", "1">>)
    /\ p_df.rows[1][<<"$">>] = NaN
    /\ p_df.rows[2][<<"$">>] = Num(-1)

\* the class objects of the response whose id is a column of the table handed
\* to the merge
MergedSets ==
    LET class_obj == Get(Get(StatData(p_out), "CLASS_INF", EmptyObj), "CLASS_OBJ", List(<<>>))
    IN  IF class_obj.t # "list" THEN {}
        ELSE {co \in Range(class_obj.v) : co["@id"] \in ColSet(p_pre)}

NamesOf(co, code) ==
    {e[<<"@", "name">>] : e \in {x \in Range(co["CLASS"].v) : x[<<"@", "code">>] = code}}

LabelCol(co) == ClassPrefix(co, p_cfg.name_or_id) \o <<"name">>

\* row r of the merged table carries the label of its code in the set co
LabelRight(co, r) ==
    /\ LabelCol(co) \in ColSet(p_df)
    /\ LET code == p_pre.rows[r][co["@id"]]
           label == p_df.rows[r][LabelCol(co)]
       IN  IF NamesOf(co, code) = {} THEN label = NULL ELSE label \in NamesOf(co, code)

MergeDone == p_stage = "naming"

\* C2 as stated: after the merge, for every class object whose id is a column
\* of the observation table, every row has in that set's label column the name
\* of the entry with the row's code, and a null label when no entry has it.
C2_EveryPresentSetLabelled ==
    MergeDone =>
        /\ Len(p_df.rows) = Len(p_pre.rows)
        /\ \A co \in MergedSets : \A r \in DOMAIN p_pre.rows : LabelRight(co, r)

\* C2 amended: the same for every such class object that has at least one
\* entry; a class object with no entries adds no label column at all.
C2_EveryNonEmptySetLabelled ==
    MergeDone =>
        /\ Len(p_df.rows) = Len(p_pre.rows)
        /\ \A co \in MergedSets :
            IF co["CLASS"].v # <<>>
            THEN \A r \in DOMAIN p_pre.rows : LabelRight(co, r)
            ELSE LabelCol(co) \notin ColSet(p_df)

C2_Witness ==
    /\ MergeDone
    /\ Len(p_pre.rows) = 2
    /\ p_pre.rows[1][<<"tab">>] = "01"
    /\ p_pre.rows[2][<<"tab">>] = "02"
    /\ TabSingle \in MergedSets
    /\ p_df.rows[1][LabelCol(TabSingle)] = "t-one"
    /\ p_df.rows[2][LabelCol(TabSingle)] = NULL

\* the unit of an observation record, NoUnit when it has none
UnitOf(rec) == IF <<"@", "unit">> \in DOMAIN rec THEN rec[<<"@", "unit">>] ELSE NoUnit

Records == Get(Get(StatData(p_out), "DATA_INF", EmptyObj), "VALUE", List(<<>>)).v

\* C10: when read is asked to split by unit (normal=False, split_units=True),
\* it returns a mapping whose keys are the distinct units of the observation
\* records, the table of a unit has as many rows as there are records of that
\* unit, and so the tables together have as many rows as the unsplit table.
C10_SplitKeysAreTheUnits ==
    p_stage = "done" /\ p_res.split_units /\ ~p_res.normal =>
        /\ "units" \in DOMAIN p_res.value
        /\ DOMAIN p_res.value.units = {UnitOf(Records[i]) : i \in DOMAIN Records}
        /\ \A u \in DOMAIN p_res.value.units :
            Len(p_res.value.units[u].rows)
                = Cardinality({i \in DOMAIN Records : UnitOf(Records[i]) = u})

\* the response has no CLASS_INF, or a CLASS_OBJ that is empty or no list
NoClasses ==
    LET class_inf == Get(StatData(p_out), "CLASS_INF", EmptyObj)
    IN  \/ class_inf = EmptyObj
        \/ class_inf["CLASS_OBJ"].t # "list"
        \/ class_inf["CLASS_OBJ"].v = <<>>

\* C18: on a response without CLASS_INF, or with a CLASS_OBJ that is empty or
\* not a list, the merge stage ends without an error and hands on the table it
\* received, rows and columns unchanged
C18_MergeLeavesTableWithoutClasses ==
    [][p_stage = "merge" /\ NoClasses => p_stage' = "naming" /\ p_df' = p_df]_vars

C18_Witness ==
    /\ MergeDone
    /\ "CLASS_INF" \notin DOMAIN StatData(p_out)
    /\ Len(p_pre.rows) = 2
    /\ p_df = p_pre

NamingDone == p_stage = "read"

\* C13: after the naming stage in name mode, the code column of every dimension
\* that has a class object is named by the display name of the dimension followed
\* by the localized "code", the unit column by the localized "unit" and the value
\* column by the localized "value"; in id mode the columns keep the machine names
\* (<id>_code, value, and the label columns as the merge named them).
C13_NameModeColumnsLocalized ==
    NamingDone =>
        IF p_cfg.name_or_id = "name"
        THEN /\ \A co \in MergedSets : <<co["@name"], JA_code>> \in ColSet(p_df)
             /\ <<"unit">> \in ColSet(p_raw) => <<JA_unit>> \in ColSet(p_df)
             /\ <<"$">> \in ColSet(p_raw) => <<JA_value>> \in ColSet(p_df)
        ELSE /\ \A c \in ColSet(p_raw) :
                    IF c = <<"$">> THEN <<"value">> \in ColSet(p_df)
                    ELSE c \o <<"_", "code">> \in ColSet(p_df)
             /\ \A c \in ColSet(p_pre) \ ColSet(p_raw) : c \in ColSet(p_df)

ClassSetsOf(out) ==
    LET class_obj == Get(Get(StatData(out), "CLASS_INF", EmptyObj), "CLASS_OBJ", List(<<>>))
    IN  IF class_obj.t = "list" THEN class_obj.v ELSE <<>>
Orders(n) == {f \in [1..n -> 1..n] : \A i, j \in 1..n : f[i] = f[j] => i = j}

\* C24: the table the merge hands on has one row for each row it received, in
\* the same order and with the cells it received, and merging the same
\* classification sets in any other order gives the same rows under the same
\* set of columns.
C24_OneRowPerRecordInOrder ==
    MergeDone =>
        LET sets == ClassSetsOf(p_out)
        IN  /\ Len(p_df.rows) = Len(p_pre.rows)
            /\ \A r \in DOMAIN p_pre.rows :
                    \A c \in ColSet(p_pre) : p_df.rows[r][c] = p_pre.rows[r][c]
            /\ \A f \in Orders(Len(sets)) :
                    LET other == MergeFrom(p_pre, [i \in DOMAIN sets |-> sets[f[i]]],
                                           p_cfg.name_or_id)
                    IN  /\ ~IsErr(other)
                        /\ other.rows = p_df.rows
                        /\ ColSet(other) = ColSet(p_df)

\* two sets were merged onto two records, the second of which has a code that
\* the set of its dimension does not hold
C24_Witness ==
    /\ MergeDone
    /\ Len(ClassSetsOf(p_out)) = 2
    /\ Len(p_pre.rows) = 2 /\ Len(p_df.rows) = 2
    /\ <<"cat", "01">> \in ColSet(p_pre)
    /\ p_pre.rows[2][<<"cat", "01">>] = "C"
    /\ Len(p_df.cols) > Len(p_pre.cols) + 1

\* a classification set with entries whose id no observation record carries
AbsentDimension ==
    \E co \in Range(ClassSetsOf(p_out)) :
        /\ Truthy(Get(co, "CLASS", None))
        /\ "@id" \in DOMAIN co /\ co["@id"] \notin ColSet(p_df)

\* C29: when the response holds a classification set whose id is not a column
\* of the observation table, the merge stage ends without error and hands on
\* the rows it received with the cells of their columns unchanged.
C29_AbsentDimensionSkipped ==
    [][p_stage = "merge" /\ AbsentDimension
        => /\ p_stage' = "naming"
           /\ Len(p_df'.rows) = Len(p_df.rows)
           /\ \A r \in DOMAIN p_df.rows :
                \A c \in ColSet(p_df) : p_df'.rows[r][c] = p_df.rows[r][c]]_vars

\* C23: in the table the pipeline returns in id mode, the code column of every
\* dimension of the observation records is named <id>_code, the unit column
\* keeps the name unit and gets no _code suffix, and the measurement column is
\* named value.
C23_UnitColumnKeepsItsName ==
    NamingDone /\ p_cfg.name_or_id = "id" =>
        \A c \in ColSet(p_raw) :
            CASE c = <<"$">> -> <<"value">> \in ColSet(p_df)
              [] c = <<"unit">> -> /\ <<"unit">> \in ColSet(p_df)
                                   /\ <<"unit", "_", "code">> \notin ColSet(p_df)
              [] OTHER -> c \o <<"_", "code">> \in ColSet(p_df)

-----------------------------------------------------------------------------
(* Properties of NameSpec *)

SourceKeys == {attrdict[i][1] : i \in DOMAIN attrdict}
KeysIn(c) == {k \in SourceKeys : HasToken(c, k)}
TwoPasses == Len(n_hist) >= 3

-----------------------------------------------------------------------------
(* Properties of HierSpec *)

ChainBuilt == h_out # NoResult /\ h_out.ret # NoResult
HEntries == ClassEntries(h_in.metainfo.GET_META_INFO.METADATA_INF.CLASS_INF.CLASS_OBJ.v[1]["CLASS"])

\* entry i is the parent of no other entry
IsLeaf(es, i) ==
    ~\E j \in DOMAIN es : j # i /\ parentCode(es[j]) # "" /\ parentCode(es[j]) = es[i][CODE]

\* the entry a row of the chain stands for: the deepest code of the row
RowCode(row, cols) ==
    LET n == Len(cols) \div 2
        set == {l \in 1..n : row[cols[l]] # NULL}
    IN  row[cols[Max(set)]]

\* C12: whenever a chain is built, its rows are the entries that are the parent of
\* no other entry, one row each, in the order of the classification
C12_RowsAreTheLeaves ==
    ChainBuilt =>
        LET df == h_out.ret
            es == HEntries
            leaves == SelectSeq([i \in DOMAIN es |-> i], LAMBDA i : IsLeaf(es, i))
        IN  /\ Len(df.rows) = Len(leaves)
            /\ \A r \in DOMAIN leaves : RowCode(df.rows[r], df.cols) = es[leaves[r]][CODE]

C12_Witness ==
    /\ ChainBuilt
    /\ Len(HEntries) = 3
    /\ Len(h_out.ret.rows) = 2
    /\ \E i \in 1..3 : ~IsLeaf(HEntries, i)
    /\ \E i \in 1..3 : parentCode(HEntries[i]) = Dangling

\* the entries on the way from entry i up its parent links, i included
RECURSIVE WalkOf(_, _)
WalkOf(es, i) ==
    LET up == {j \in DOMAIN es : parentCode(es[i]) # "" /\ es[j][CODE] = parentCode(es[i])}
    IN  {i} \cup UNION {WalkOf(es, j) : j \in up}

LevelOf(e) == level_to_numeric(e[LEVEL])
MaxLevel(es) == Max({LevelOf(es[i]).n : i \in {i \in DOMAIN es : LevelOf(es[i]).k = "num"}})

\* the code the walk of leaf i recorded at level N, NULL when it recorded none
WalkCode(es, i, N) ==
    LET at == {j \in WalkOf(es, i) : LevelOf(es[j]).k = "num" /\ LevelOf(es[j]).n = N}
    IN  IF at = {} THEN NULL ELSE es[CHOOSE j \in at : TRUE][CODE]

\* the nearest level above N at which the walk of leaf i recorded a code
Shallower(es, i, N) ==
    LET set == {k \in 1..(N - 1) : WalkCode(es, i, k) # NULL}
    IN  IF set = {} THEN NULL ELSE WalkCode(es, i, Max(set))

\* C25: in a chain that was built, column levelN of the row of a leaf holds the
\* code its ancestry walk recorded at level N; a level the walk skipped above
\* the leaf holds the nearest shallower recorded code when use_fillna_lv_hierarchy
\* is true and is empty when it is false; a level deeper than the leaf's own is
\* empty.
C25_LevelColumnsFollowTheWalk ==
    ChainBuilt =>
        LET df == h_out.ret
            es == HEntries
            leaves == SelectSeq([i \in DOMAIN es |-> i], LAMBDA i : IsLeaf(es, i))
        IN  \A r \in DOMAIN leaves : \A N \in 1..MaxLevel(es) :
                df.rows[r][<<"level", DigitOf(N)>>] =
                    IF WalkCode(es, leaves[r], N) # NULL THEN WalkCode(es, leaves[r], N)
                    ELSE IF N < LevelOf(es[leaves[r]]).n
                         THEN IF h_in.use_fillna_lv_hierarchy
                              THEN Shallower(es, leaves[r], N) ELSE NULL
                    ELSE NULL

-----------------------------------------------------------------------------
(* Properties of WalkSpec *)

\* C28: the ancestry walk of a leaf visits no more entries than the
\* classification has, dangling and cyclic parent links included, so that it
\* ends and the loop over the rows goes on.
C28_WalkVisitsFinitelyManyEntries ==
    w_st # NoResult => w_st.steps <= Len(w_in)

-----------------------------------------------------------------------------
(* Properties of FetchSpec *)

LastResponse == g_st.received[Len(g_st.received)]

\* C27: when _get_response raises RemoteDataError after its attempts are
\* exhausted, the message carries the body of the last response received in the
\* call when that response has a body, and no body (so never the body of an
\* earlier attempt) when it has none
C27_MessageCarriesLastBody ==
    g_st # NoResult /\ g_st.pc = "raised" =>
        g_st.msg.response_text =
            IF LastResponse.text # "" THEN [t |-> "bytes", v |-> LastResponse.text]
            ELSE NoResult

-----------------------------------------------------------------------------
(* Properties of KeySpec *)

Constructed == k_out # NoResult
Min(S) == CHOOSE x \in S : \A y \in S : x <= y

\* the value of the first variable of the list that is set in environ, if any
FirstSet(environ) ==
    LET set == {i \in DOMAIN env_vars :
                  env_vars[i] \in DOMAIN environ /\ environ[env_vars[i]] # EmptyKey}
    IN  IF set = {} THEN NoKey ELSE environ[env_vars[Min(set)]]

\* the dotenv files the construction may consult, in order
Consulted ==
    IF ~k_in.available THEN <<>>
    ELSE IF k_in.dotenv_path # "" THEN <<k_in.dotenv_path>>
    ELSE env_files

Existing(i) == {j \in 1..i : k_in.files[Consulted[j]].exists}

\* the environment once the first i consulted files are loaded: a variable keeps
\* the value it had, a new one takes the value of the first file assigning it
EnvAfter(i) ==
    LET assigning(v) == {j \in Existing(i) : v \in DOMAIN k_in.files[Consulted[j]].assigns}
        new == {v \in Range(env_vars) : assigning(v) # {}} \ DOMAIN k_in.environ
    IN  [v \in DOMAIN k_in.environ \cup new |->
            IF v \in DOMAIN k_in.environ THEN k_in.environ[v]
            ELSE k_in.files[Consulted[Min(assigning(v))]].assigns[v]]

Raised == k_out = [api_key |-> NoKey, exc |-> "ValueError"]
Resolved(key) == k_out = [api_key |-> key, exc |-> "none"]

\* C14 as stated: the explicit argument if given; otherwise the first set variable
\* of the list in the environment; a key of a dotenv file only when no variable
\* of the list is set in the environment; ValueError when there is no key
C14_EnvBeforeDotenv ==
    Constructed =>
        IF k_in.api_key # NoKey
        THEN IF k_in.api_key = EmptyKey THEN Raised ELSE Resolved(k_in.api_key)
        ELSE IF FirstSet(k_in.environ) # NoKey THEN Resolved(FirstSet(k_in.environ))
        ELSE IF FirstSet(EnvAfter(Len(Consulted))) # NoKey
             THEN k_out.exc = "none" /\ k_out.api_key.from \in Range(Consulted)
        ELSE Raised

\* C14 as amended: the explicit argument if it is a non-empty string and
\* ValueError if it is empty; otherwise the dotenv files come first: each
\* consulted file that exists is loaded without overriding a variable already
\* set, the loading stops at the first file after which a variable of the list
\* is set, and the key is the first set variable of the list in the environment
\* so extended; ValueError when no variable of the list is set in the end
C14_DotenvLoadedFirst ==
    Constructed =>
        IF k_in.api_key # NoKey
        THEN /\ IF k_in.api_key = EmptyKey THEN Raised ELSE Resolved(k_in.api_key)
             /\ k_env = k_in.environ
        ELSE LET yields == {i \in Existing(Len(Consulted)) : FirstSet(EnvAfter(i)) # NoKey}
                 stop == IF k_in.dotenv_path = "" /\ yields # {} THEN Min(yields)
                         ELSE Len(Consulted)
                 key == FirstSet(EnvAfter(stop))
             IN  /\ IF key = NoKey THEN Raised ELSE Resolved(key)
                 /\ k_env = EnvAfter(stop)

C14_Witness ==
    /\ Constructed
    /\ k_in.api_key = NoKey /\ k_in.available /\ k_in.dotenv_path = ""
    /\ k_in.environ = ("ESTAT_API_KEY" :> KeyOf("env", "ESTAT_API_KEY"))
    /\ ~k_in.files[".estat_env"].exists
    /\ k_in.files[".env"].exists
    /\ Resolved(KeyOf(".env", "E_STAT_APPLICATION_ID"))

-----------------------------------------------------------------------------
(* Properties of ParamSpec *)

Mapped(kind) == {param_mappings(kind)[i] : i \in DOMAIN param_mappings(kind)}

\* C15: every evaluation of params gives the mapping of appId to the API key and
\* of each field of the reader's mappings to its configured value exactly when
\* that value is not None and passes the field's validator, nothing else, and
\* leaves the configuration as it was, so two evaluations give equal mappings
C15_ParamsAreTheValidFields ==
    /\ \A i \in DOMAIN q_out :
        LET p == q_out[i]
            valid == {m \in Mapped(q_cfg.kind) :
                        q_cfg.fields[m[1]] # PNone /\ validator(m[2], q_cfg.fields[m[1]])}
        IN  /\ DOMAIN p = {"appId"} \cup {m[1] : m \in valid}
            /\ p["appId"] = PStr(q_cfg.api_key)
            /\ \A m \in valid : p[m[1]] = q_cfg.fields[m[1]]
    /\ Len(q_out) = 2 => q_out[1] = q_out[2]

C15_Witness ==
    /\ Len(q_out) = 2
    /\ q_cfg.kind = "DataCatalog"
    /\ q_cfg.fields["dataType"] = PStr("Z")
    /\ q_cfg.fields["collectArea"] = PInt(1)
    /\ "dataType" \notin DOMAIN q_out[2]
    /\ "limit" \notin DOMAIN q_out[2]
    /\ q_out[2]["collectArea"] = PInt(1)

-----------------------------------------------------------------------------
(* Properties of AttrSpec *)

Stored == a_out # NoResult

\* the attributes modelled for each reader
AttrsOf(kind) ==
    {"STATUS", "ERROR_MSG", "LANG"} \cup
        CASE IsList(kind) -> {"NUMBER", "NEXT_KEY"}
          [] kind = "StatsData" -> {"TABLE_INF", "STATISTICS_NAME", "CYCLE", "TITLE", "GOV_ORG"}
          [] OTHER -> {"TABLE_INF", "STATISTICS_NAME", "CYCLE"}

\* where the response holds the source of an attribute
SourcePath(kind, a) ==
    <<TopKey(kind)>> \o
        CASE a \in {"STATUS", "ERROR_MSG"} -> <<"RESULT", a>>
          [] a = "LANG" -> <<"PARAMETER", a>>
          [] a = "NUMBER" -> <<BodyKey(kind), a>>
          [] a = "NEXT_KEY" -> <<BodyKey(kind), "RESULT_INF", a>>
          [] a = "TABLE_INF" -> <<BodyKey(kind), a>>
          [] OTHER -> <<BodyKey(kind), "TABLE_INF", a>>

RECURSIVE HasPath(_, _)
HasPath(obj, path) ==
    path = <<>> \/ (Head(path) \in DOMAIN obj /\ HasPath(obj[Head(path)], Tail(path)))

Absent(a) == ~HasPath(a_in.json, SourcePath(a_in.kind, a))

\* C19 as stated: storing the metadata of a response raises nothing, and every
\* attribute whose source field is absent from the response is None.
C19_AbsentFieldsAreNone ==
    Stored => \A a \in AttrsOf(a_in.kind) : Absent(a) => a_out.attrs[a] = NoneAttr

\* what an attribute is when its source is absent: the data reader's TITLE and
\* GOV_ORG are the empty string, TABLE_INF is an empty mapping, the others None
WhenAbsent(kind, a) ==
    CASE kind = "StatsData" /\ a \in {"TITLE", "GOV_ORG"} -> ""
      [] a = "TABLE_INF" -> "{}"
      [] OTHER -> NoneAttr

\* C19, amended: storing the metadata of a response raises nothing, and every
\* attribute whose source field is absent is None, except the data reader's TITLE
\* and GOV_ORG, which are the empty string, and TABLE_INF, which is an empty mapping.
C19_AbsentFieldsAreNoneOrEmpty ==
    Stored => \A a \in AttrsOf(a_in.kind) :
                Absent(a) => a_out.attrs[a] = WhenAbsent(a_in.kind, a)

\* a data response without TABLE_INF was stored, its STATUS being present
C19_Witness ==
    /\ Stored
    /\ a_in.kind = "StatsData"
    /\ Absent("TABLE_INF") /\ Absent("TITLE") /\ ~Absent("STATUS")
    /\ a_out.attrs.TITLE = "" /\ a_out.attrs.CYCLE = NoneAttr /\ a_out.attrs.STATUS = "0"

====
